---- MODULE Spec2Model ----
(***************************************************************************)
(* Cookie-Manage: the consent-gated script activation engine of the        *)
(* front-end SDK (src/src/js/preference-center.js, object CMP and object   *)
(* PreferenceCenter) and the cookie categoriser of the back end            *)
(* (CookieDatabase, src/unnamed/part_001).                                 *)
(***************************************************************************)
EXTENDS Integers, Sequences, FiniteSets, TLC

\* ------------------------------------------------------------------------
\* Bounds of the model
\* ------------------------------------------------------------------------
MaxScripts == 2    \* script elements the page authors
MaxNodes == 4      \* script nodes ever created (authored + clones)
MaxMoves == 1      \* times the page re-inserts an existing script node
MaxRemoves == 1    \* times the page removes a script node
MaxInits == 1      \* CMP.init() calls that pass the initialized guard
MaxInitCalls == 2  \* CMP.init() calls of a page that also calls it itself

\* ------------------------------------------------------------------------
\* Values
\* ------------------------------------------------------------------------
Categories == {"necessary", "analytics", "marketing"}
Markers == {"none", "necessary", "analytics", "marketing"}
\* the decisions handed to saveConsent: every choice of the unlocked categories,
\* and one decision that switches 'necessary' off
Decisions ==
    {d \in [Categories -> BOOLEAN] : d["necessary"] \/ \A c \in Categories : ~d[c]}
NoConsent == [none |-> TRUE]
TextPlain == "text/plain"
TextJavascript == "text/javascript"
NoType == ""

VARIABLES
    consent,         \* CMP.consent: NoConsent or [state |-> decision]
    stored,          \* localStorage item 'cmp_consent'
    storageOk,       \* localStorage accepts writes on this page (not disabled, not full)
    dom,             \* script nodes, by creation order
    blockedScripts,  \* CMP.blockedScripts
    queues,          \* pending mutation records, one queue per observer
    pendingInits,    \* init() calls awaiting loadConfig
    initialized,     \* CMP.initialized
    banner,          \* the consent banner is in the page
    pcOpen,          \* the preference center is in the page
    pcAlias,         \* PreferenceCenter.currentState is the object CMP.consent.state
    pcState,         \* PreferenceCenter.currentState when it is its own object
    trace,           \* steps performed by the latest handler (saveConsent, init)
    asked,           \* the decision handed to saveConsent by the latest handler
    discovered,      \* elements in the order handleScript first saw them
    moves,           \* re-insertions done so far
    removes,         \* removals done so far
    inits,           \* init() calls made so far
    receipt,         \* the latest receipt request of logConsent and how it ended
    cacheFile,       \* data/cookies/database.json: the indexed corpus
    overridesFile,   \* data/cookies/overrides.json
    answer,          \* the latest categorize() call: its arguments and its result
    database,        \* CookieDatabase::$database of the request's object
    tmpFile,         \* the temporary file of FileStorage::write for the cache
    refresh,         \* the updateDatabase call in progress, or how the last one ended
    fs               \* FileStorage under concurrent requests: files, locks, calls

\* the variables of the front-end SDK and those of the back end
dbvars == <<cacheFile, overridesFile, answer, database, tmpFile, refresh>>

vars == <<consent, stored, storageOk, dom, blockedScripts, queues, pendingInits,
          initialized, banner, pcOpen, pcAlias, pcState, trace, asked,
          discovered, moves, removes, inits, receipt, cacheFile, overridesFile,
          answer, database, tmpFile, refresh, fs>>

cmpvars == <<consent, stored, storageOk, dom, blockedScripts, queues,
             pendingInits, initialized, banner, pcOpen, pcAlias, pcState, trace,
             asked, discovered, moves, removes, inits, receipt>>

\* The program state as one value, so that handlers compose as functions.
World == [consent |-> consent, stored |-> stored, storageOk |-> storageOk,
          dom |-> dom,
          blockedScripts |-> blockedScripts, queues |-> queues,
          initialized |-> initialized, banner |-> banner,
          pcOpen |-> pcOpen, pcAlias |-> pcAlias, pcState |-> pcState,
          trace |-> <<>>, asked |-> NoConsent, discovered |-> discovered,
          moves |-> moves, removes |-> removes, receipt |-> receipt]

Commit(w) ==
    /\ consent' = w.consent
    /\ stored' = w.stored
    /\ storageOk' = w.storageOk
    /\ dom' = w.dom
    /\ blockedScripts' = w.blockedScripts
    /\ queues' = w.queues
    /\ initialized' = w.initialized
    /\ banner' = w.banner
    /\ pcOpen' = w.pcOpen
    /\ pcAlias' = w.pcAlias
    /\ pcState' = w.pcState
    /\ trace' = w.trace
    /\ asked' = w.asked
    /\ discovered' = w.discovered
    /\ moves' = w.moves
    /\ removes' = w.removes
    /\ receipt' = w.receipt
    /\ UNCHANGED <<dbvars, fs>>

\* ------------------------------------------------------------------------
\* Helpers
\* ------------------------------------------------------------------------
\* a parsed 'cmp_consent' item that is an object without a state map
Malformed == [version |-> "1.0.0"]

\* this.consent.state is an object
HasState(c) == "state" \in DOMAIN c

\* names every object inherits from Object.prototype: state[name] is a
\* function, which is truthy
InheritedKeys == {"constructor"}

\* consent.state[category] as a JavaScript truth value (a missing key is
\* falsy, an inherited one truthy)
Lookup(state, category) ==
    IF category \in DOMAIN state THEN state[category]
    ELSE category \in InheritedKeys

InSeq(x, s) == \E i \in 1..Len(s) : s[i] = x

\* Element.setAttribute: the value of an attribute the element has is replaced
\* in place, a new attribute is added after the others
setAttribute(attrs, name, value) ==
    IF \E i \in 1..Len(attrs) : attrs[i].name = name
    THEN [i \in 1..Len(attrs) |->
             IF attrs[i].name = name THEN [name |-> name, value |-> value]
             ELSE attrs[i]]
    ELSE Append(attrs, [name |-> name, value |-> value])

\* Element.removeAttribute
removeAttribute(attrs, name) == SelectSeq(attrs, LAMBDA a : a.name # name)

\* the attributes applyConsent copies to the clone: all but 'type' and
\* 'data-blocked', in the order of script.attributes
copiedAttributes(attrs) ==
    SelectSeq(attrs, LAMBDA a : a.name # "type" /\ a.name # "data-blocked")

\* the attributes of a script element as the page wrote it
authoredAttributes(m, t) ==
    (IF t = "" THEN <<>> ELSE <<[name |-> "type", value |-> t]>>)
      \o (IF m = "none" THEN <<>> ELSE <<[name |-> "data-category", value |-> m]>>)

\* every observer receives the record of an inserted node
Enqueue(qs, n) == [k \in 1..Len(qs) |-> Append(qs[k], n)]

\* CMP.getConsent
getConsent(w) == IF HasState(w.consent) THEN w.consent.state ELSE NoConsent

\* PreferenceCenter.getDefaultState
getDefaultState == [c \in Categories |-> c = "necessary"]

AcceptAllState == [c \in Categories |-> TRUE]
RejectAllState == [c \in Categories |-> c = "necessary"]

\* ------------------------------------------------------------------------
\* CMP.handleScript
\* ------------------------------------------------------------------------
\* handleScript without the early return for the 'necessary' marker
handleScript_gatesNecessary(w, n) ==
    LET category == w.dom[n].marker
        seen == IF InSeq(w.dom[n].root, w.discovered) THEN w.discovered
                ELSE Append(w.discovered, w.dom[n].root)
        w1 == [w EXCEPT !.discovered = seen]
    IN  IF category = "none" THEN w1
        ELSE IF w.consent # NoConsent /\ ~HasState(w.consent)
        THEN [w1 EXCEPT !.trace = Append(@, "handleThrew")]
        ELSE IF w.consent = NoConsent \/ ~Lookup(w.consent.state, category)
        THEN IF w.dom[n].type # TextPlain
             THEN [w1 EXCEPT !.dom[n].type = TextPlain,
                             !.dom[n].blocked = TRUE,
                             !.dom[n].attrs =
                                 setAttribute(setAttribute(@, "type", TextPlain),
                                              "data-blocked", "true"),
                             !.blockedScripts =
                                 Append(@, [script |-> n, category |-> category])]
             ELSE w1
        ELSE IF w.dom[n].type = TextPlain /\ w.dom[n].blocked
             THEN [w1 EXCEPT !.dom[n].type = TextJavascript,
                             !.dom[n].blocked = FALSE,
                             !.dom[n].attrs =
                                 removeAttribute(
                                     setAttribute(@, "type", TextJavascript),
                                     "data-blocked"),
                             !.dom[n].gen = @ + 1]
             ELSE w1

handleScript(w, n) ==
    LET category == w.dom[n].marker
        seen == IF InSeq(w.dom[n].root, w.discovered) THEN w.discovered
                ELSE Append(w.discovered, w.dom[n].root)
        w1 == [w EXCEPT !.discovered = seen]
    IN  IF category = "none" THEN w1
        ELSE IF category = "necessary" THEN w1
        \* this.consent.state[category] on an object without state: TypeError
        ELSE IF w.consent # NoConsent /\ ~HasState(w.consent)
        THEN [w1 EXCEPT !.trace = Append(@, "handleThrew")]
        ELSE IF w.consent = NoConsent \/ ~Lookup(w.consent.state, category)
        THEN IF w.dom[n].type # TextPlain
             THEN [w1 EXCEPT !.dom[n].type = TextPlain,
                             !.dom[n].blocked = TRUE,
                             !.dom[n].attrs =
                                 setAttribute(setAttribute(@, "type", TextPlain),
                                              "data-blocked", "true"),
                             !.blockedScripts =
                                 Append(@, [script |-> n, category |-> category])]
             ELSE w1
        ELSE IF w.dom[n].type = TextPlain /\ w.dom[n].blocked
             THEN [w1 EXCEPT !.dom[n].type = TextJavascript,
                             !.dom[n].blocked = FALSE,
                             !.dom[n].attrs =
                                 removeAttribute(
                                     setAttribute(@, "type", TextJavascript),
                                     "data-blocked"),
                             !.dom[n].gen = @ + 1]
             ELSE w1

\* a forEach over scripts: an exception of handleScript ends it
RECURSIVE handleAll(_, _)
handleAll(w, q) ==
    IF q = <<>> THEN w
    ELSE LET r == handleScript(w, Head(q))
         IN  IF Len(r.trace) > Len(w.trace) THEN r ELSE handleAll(r, Tail(q))

\* the handler has been ended by an uncaught exception
Threw(w) ==
    w.trace # <<>> /\ w.trace[Len(w.trace)] \in {"applyThrew", "handleThrew"}

\* ------------------------------------------------------------------------
\* CMP.applyConsent
\* ------------------------------------------------------------------------
\* the clone that replaceChild puts in the place of a blocked script: every
\* attribute but 'type' and 'data-blocked' is copied. Below, a clone that is
\* given no content
newScript_noContent(old) ==
    [marker |-> old.marker, type |-> NoType, otype |-> old.otype,
     blocked |-> FALSE, inDoc |-> TRUE, root |-> old.root, gen |-> old.gen + 1,
     text |-> 0, attrs |-> copiedAttributes(old.attrs)]

\* the clone of applyConsent, with newScript.textContent = script.textContent
newScript(old) ==
    [marker |-> old.marker, type |-> NoType, otype |-> old.otype,
     blocked |-> FALSE, inDoc |-> TRUE, root |-> old.root, gen |-> old.gen + 1,
     text |-> old.text, attrs |-> copiedAttributes(old.attrs)]

\* one iteration of blockedScripts.forEach; a script without parentNode makes
\* script.parentNode.replaceChild throw, which ends the loop
RECURSIVE applyLoop(_, _)
applyLoop(w, i) ==
    IF i > Len(w.blockedScripts) THEN w
    ELSE LET e == w.blockedScripts[i]
             old == w.dom[e.script]
         IN  IF ~HasState(w.consent)
             THEN [w EXCEPT !.trace = Append(@, "applyThrew")]
             ELSE IF Lookup(w.consent.state, e.category) /\ old.type = TextPlain
             THEN IF ~old.inDoc
                  THEN [w EXCEPT !.trace = Append(@, "applyThrew")]
                  ELSE applyLoop(
                         [w EXCEPT !.dom = Append([@ EXCEPT ![e.script].inDoc = FALSE],
                                                  newScript(old)),
                                   !.queues = Enqueue(@, Len(w.dom) + 1)],
                         i + 1)
             ELSE applyLoop(w, i + 1)

applyConsent(w) ==
    IF w.consent = NoConsent THEN w
    ELSE LET r == applyLoop(w, 1)
         IN  IF Threw(r) THEN r
             ELSE [r EXCEPT !.blockedScripts = <<>>,
                            !.trace = Append(@, "apply")]

\* ------------------------------------------------------------------------
\* CMP.saveConsent and the steps it is made of
\* ------------------------------------------------------------------------
\* this.consent = { state: consentState, ... }: a new object, so a preference
\* center whose currentState was the old consent.state keeps the old object
assignConsent(w, d) ==
    [w EXCEPT !.consent = [state |-> d],
              !.asked = d,
              !.pcState = IF w.pcAlias THEN w.consent.state ELSE @,
              !.pcAlias = FALSE,
              !.trace = Append(@, "assign")]

\* a setItem that throws after it has replaced the stored item
persistConsent_partialWrite(w) ==
    IF w.storageOk THEN [w EXCEPT !.stored = w.consent, !.trace = Append(@, "persist")]
    ELSE [w EXCEPT !.stored = w.consent, !.trace = Append(@, "persistFailed")]

\* localStorage.setItem inside try/catch: a throwing setItem is caught
persistConsent(w) ==
    IF w.storageOk THEN [w EXCEPT !.stored = w.consent, !.trace = Append(@, "persist")]
    ELSE [w EXCEPT !.trace = Append(@, "persistFailed")]

\* CMP.logConsent up to its await, called and not awaited by saveConsent: the
\* session identifier is read from sessionStorage and the request is sent; a
\* throwing sessionStorage is caught by the try/catch of logConsent
logConsent(w) ==
    [w EXCEPT !.trace = Append(@, "log"),
              !.receipt = IF w.storageOk THEN "pending" ELSE "failed"]

\* a logConsent that withdraws the decision when its receipt was not stored
receiptSettled_undoes(w, outcome) ==
    IF outcome = "failed"
    THEN [w EXCEPT !.receipt = outcome, !.consent = NoConsent, !.stored = NoConsent]
    ELSE [w EXCEPT !.receipt = outcome]

\* CMP.logConsent from its await on: a rejected fetch and a response that is
\* not ok are reported on the console
receiptSettled(w, outcome) == [w EXCEPT !.receipt = outcome]

\* CMP.dispatchEvent('cmp:consent-changed')
notifyChanged(w) == [w EXCEPT !.trace = Append(@, "notify")]

\* saveConsent with the notification dispatched ahead of the gate pass
saveConsent_notifiesFirst(w, d) ==
    LET w1 == assignConsent(w, d)
        w2 == persistConsent(w1)
        w3 == notifyChanged(logConsent(w2))
    IN  applyConsent(w3)

\* CMP.saveConsent
saveConsent(w, d) ==
    LET w1 == assignConsent(w, d)
        w2 == persistConsent(w1)
        w3 == logConsent(w2)
        w4 == applyConsent(w3)
    IN  IF Threw(w4) THEN w4 ELSE notifyChanged(w4)

\* ------------------------------------------------------------------------
\* CMP.init after the configuration has been loaded
\* ------------------------------------------------------------------------
\* CMP.loadConsent: JSON.parse of the stored item gives a new object
loadConsent(w) ==
    IF w.stored = NoConsent THEN w
    ELSE [w EXCEPT !.consent = w.stored,
                   !.pcState = IF w.pcAlias THEN w.consent.state ELSE @,
                   !.pcAlias = FALSE]

\* document.querySelectorAll('script[type="text/plain"]'), in document order
ExistingPlain(w) ==
    SelectSeq([n \in 1..Len(w.dom) |-> n],
              LAMBDA n : w.dom[n].inDoc /\ w.dom[n].type = TextPlain)

\* CMP.interceptScripts: a new observer, then the scripts already present
interceptScripts(w) ==
    handleAll([w EXCEPT !.queues = Append(@, <<>>)], ExistingPlain(w))

\* CMP.applyBlocking
applyBlocking(w) == interceptScripts(w)

\* CMP.showBanner
showBanner(w) == [w EXCEPT !.banner = @ + 1]

\* the rest of CMP.init; blocking: config.blocking.enabled; dnt: the
\* configuration respects Do Not Track and the browser sends it
initRest(w, blocking, dnt) ==
    LET w1 == loadConsent(w)
        w2 == IF blocking THEN applyBlocking(w1) ELSE w1
        \* shouldShowBanner, with the saveConsent it does under Do Not Track
        hasConsent == HasState(w2.consent)
        w3 == IF Threw(w2) THEN w2
              ELSE IF ~hasConsent /\ dnt THEN saveConsent(w2, RejectAllState)
              ELSE w2
        show == ~hasConsent /\ ~dnt
        w4 == IF Threw(w3) THEN w3
              ELSE IF show THEN showBanner(w3)
              ELSE IF w3.consent # NoConsent THEN applyConsent(w3)
              ELSE w3
    IN  IF Threw(w4) THEN w4
        ELSE [w4 EXCEPT !.initialized = TRUE,
                        !.trace = Append(@, "initialized")]

\* ------------------------------------------------------------------------
\* CookieDatabase (back end): strings are sequences of characters
\* ------------------------------------------------------------------------
\* no request is using FileStorage
FsIdle == [idle |-> TRUE]

MaxRecords == 2    \* records of the corpus
MaxOverrides == 2  \* entries of the override store
MaxAdds == 2       \* addOverride calls
MaxProcs == 2      \* requests that use FileStorage at the same time
MaxCalls == 3      \* addOverride and log calls of those requests
MaxLogged == 3     \* receipts in the consent log
MaxLimit == 2      \* the limit and the offset of a getLogs call

Absent == [absent |-> TRUE]
\* a file whose content is not valid JSON
Corrupt == [corrupt |-> TRUE]
\* an exception that leaves the call
Raised == [exception |-> TRUE]
\* no updateDatabase call is in progress
Idle == [stage |-> "idle"]
\* the last updateDatabase call threw
Failed == [stage |-> "failed"]
NoAnswer == [none |-> TRUE]
NoRecord == [null |-> TRUE]

\* strtolower: the lower-case letter of every upper-case letter
LowerOf ==
    [A |-> "a", B |-> "b", C |-> "c", D |-> "d", E |-> "e", F |-> "f", G |-> "g",
     H |-> "h", I |-> "i", J |-> "j", K |-> "k", L |-> "l", M |-> "m", N |-> "n",
     O |-> "o", P |-> "p", Q |-> "q", R |-> "r", S |-> "s", T |-> "t", U |-> "u",
     V |-> "v", W |-> "w", X |-> "x", Y |-> "y", Z |-> "z"]

LowerChar(c) == IF c \in DOMAIN LowerOf THEN LowerOf[c] ELSE c
strtolower(str) == [i \in 1..Len(str) |-> LowerChar(str[i])]

\* PHP empty($s) and the truth value of a string: "" and "0" are empty
empty(str) == str = <<>> \/ str = <<"0">>

\* substr($s, -$k): the last k characters, the whole string when it is shorter
Suffix(str, k) ==
    IF k >= Len(str) THEN str ELSE SubSeq(str, Len(str) - k + 1, Len(str))

\* domainMatches whose parent-domain test compares the bare suffix
domainMatches_bareSuffix(domain, pattern) ==
    LET d == strtolower(domain)
        p == strtolower(pattern)
    IN  IF d = p THEN TRUE
        ELSE Suffix(d, Len(p)) = p

\* CookieDatabase::domainMatches
domainMatches(domain, pattern) ==
    LET d == strtolower(domain)
        p == strtolower(pattern)
    IN  IF d = p THEN TRUE
        ELSE IF p # <<>> /\ p[1] = "."
             THEN Suffix(d, Len(p)) = p
             ELSE Suffix(d, Len(p) + 1) = <<".">> \o p

\* preg_match of the pattern that wildcardMatch builds: preg_quote turns '*'
\* into '\*' and '?' into '\?', in which str_replace then rewrites the '*' to
\* '.*' and the '?' to '.': the regex has '\.*' (any number of dots) for a '*'
\* and '\.' (one dot) for a '?'; every other character stands for itself
RECURSIVE regexMatch(_, _)
regexMatch(name, pattern) ==
    IF pattern = <<>> THEN name = <<>>
    ELSE IF Head(pattern) = "*"
         THEN \/ regexMatch(name, Tail(pattern))
              \/ (name # <<>> /\ Head(name) = "." /\ regexMatch(Tail(name), pattern))
    ELSE IF Head(pattern) = "?"
         THEN name # <<>> /\ Head(name) = "." /\ regexMatch(Tail(name), Tail(pattern))
    ELSE name # <<>> /\ Head(name) = Head(pattern)
            /\ regexMatch(Tail(name), Tail(pattern))

\* CookieDatabase::wildcardMatch
wildcardMatch(name, pattern) == regexMatch(strtolower(name), strtolower(pattern))

\* a buildIndexes that also files wildcard records under their name
RECURSIVE buildFrom_wildcardsByName(_, _, _)
buildFrom_wildcardsByName(cookies, i, ix) ==
    IF i > Len(cookies) THEN ix
    ELSE LET cookie == cookies[i]
             name == strtolower(cookie.name)
             domain == strtolower(cookie.domain)
             put(m, k) == IF k \in DOMAIN m
                          THEN [m EXCEPT ![k] = Append(@, i)]
                          ELSE [x \in DOMAIN m \cup {k} |->
                                   IF x = k THEN <<i>> ELSE m[x]]
             ix1 == IF cookie.isWildcard
                    THEN [ix EXCEPT !.wildcards =
                                      Append(@, [pattern |-> name, index |-> i]),
                                    !.byName = put(@, name)]
                    ELSE [ix EXCEPT !.byName = put(@, name)]
             ix2 == IF ~empty(domain)
                    THEN [ix1 EXCEPT !.byDomain = put(@, domain)]
                    ELSE ix1
         IN  buildFrom_wildcardsByName(cookies, i + 1, ix2)

\* CookieDatabase::buildIndexes
RECURSIVE buildFrom(_, _, _)
buildFrom(cookies, i, ix) ==
    IF i > Len(cookies) THEN ix
    ELSE LET cookie == cookies[i]
             name == strtolower(cookie.name)
             domain == strtolower(cookie.domain)
             put(m, k) == IF k \in DOMAIN m
                          THEN [m EXCEPT ![k] = Append(@, i)]
                          ELSE [x \in DOMAIN m \cup {k} |->
                                   IF x = k THEN <<i>> ELSE m[x]]
             ix1 == IF cookie.isWildcard
                    THEN [ix EXCEPT !.wildcards =
                                      Append(@, [pattern |-> name, index |-> i])]
                    ELSE [ix EXCEPT !.byName = put(@, name)]
             ix2 == IF ~empty(domain)
                    THEN [ix1 EXCEPT !.byDomain = put(@, domain)]
                    ELSE ix1
         IN  buildFrom(cookies, i + 1, ix2)

buildIndexes(cookies) ==
    buildFrom(cookies, 1, [byName |-> [k \in {} |-> <<>>],
                           byDomain |-> [k \in {} |-> <<>>],
                           wildcards |-> <<>>])

\* the cache data that updateDatabase writes
cacheData(cookies) == [cookies |-> cookies, indexes |-> buildIndexes(cookies)]

\* FileStorage::read returns the decoded content; it throws on a missing file
\* and on invalid JSON
readable(file) == file # Absent /\ file # Corrupt

\* a getOverrides that lets every name of an unreadable store read as overridden
getOverrides_phantom(file) ==
    IF readable(file) THEN file.overrides
    ELSE [k \in {<<"a">>, <<"a", "b">>} |->
             [name |-> k, domain |-> <<>>, category |-> "necessary",
              reason |-> <<>>, timestamp |-> 0]]

\* CookieDatabase::getOverrides: a store whose read throws (missing file,
\* invalid JSON) reads as no override
getOverrides(file) ==
    IF readable(file) THEN file.overrides ELSE [k \in {} |-> NoRecord]

\* the key of an override: name [ '@' domain ]
overrideKey(name, domain) ==
    strtolower(name) \o (IF ~empty(domain) THEN <<"@">> \o strtolower(domain) ELSE <<>>)

\* a foreach that returns at its first hit: the least of the positions that
\* pass the test, 0 when the loop runs to its end
firstOf(hits) ==
    IF hits = {} THEN 0 ELSE CHOOSE i \in hits : \A j \in hits : i <= j

\* CookieDatabase::$categoryMap, in the order of its keys
categoryMap ==
    << [label |-> <<"S", "t", "r", "i", "c", "t", "l", "y", " ", "N", "e", "c", "e", "s", "s", "a", "r", "y">>,
        category |-> "necessary"],
       [label |-> <<"F", "u", "n", "c", "t", "i", "o", "n", "a", "l">>,
        category |-> "preferences"],
       [label |-> <<"P", "e", "r", "f", "o", "r", "m", "a", "n", "c", "e">>,
        category |-> "analytics"],
       [label |-> <<"T", "a", "r", "g", "e", "t", "i", "n", "g", "/", "A", "d", "v", "e", "r", "t", "i", "s", "i", "n", "g">>,
        category |-> "marketing"],
       [label |-> <<"A", "n", "a", "l", "y", "t", "i", "c", "s">>,
        category |-> "analytics"],
       [label |-> <<"M", "a", "r", "k", "e", "t", "i", "n", "g">>,
        category |-> "marketing"],
       [label |-> <<"P", "r", "e", "f", "e", "r", "e", "n", "c", "e", "s">>,
        category |-> "preferences"],
       [label |-> <<"N", "e", "c", "e", "s", "s", "a", "r", "y">>,
        category |-> "necessary"] >>

\* trim: the string without the blanks at its ends
RECURSIVE trim(_)
trim(str) ==
    IF str = <<>> THEN str
    ELSE IF Head(str) = " " THEN trim(Tail(str))
    ELSE IF str[Len(str)] = " " THEN trim(SubSeq(str, 1, Len(str) - 1))
    ELSE str

\* stripos($haystack, $needle) !== false, both in lower case
Contains(haystack, needle) ==
    \E k \in 0..(Len(haystack) - Len(needle)) :
        SubSeq(haystack, k + 1, k + Len(needle)) = needle

\* the keys of the map the fuzzy matching finds in the string
labelHits(lower) ==
    {i \in 1..Len(categoryMap) : Contains(lower, strtolower(categoryMap[i].label))}

\* a normalizeCategory whose fuzzy matching keeps the last key that matches
normalizeCategory_lastLabel(category) ==
    LET trimmed == trim(category)
        exact == {i \in 1..Len(categoryMap) : categoryMap[i].label = trimmed}
        hits == labelHits(strtolower(trimmed))
    IN  IF exact # {} THEN categoryMap[firstOf(exact)].category
        ELSE IF hits # {}
        THEN categoryMap[CHOOSE i \in hits : \A j \in hits : j <= i].category
        ELSE "uncategorized"

\* CookieDatabase::normalizeCategory
normalizeCategory(category) ==
    LET trimmed == trim(category)
        exact == {i \in 1..Len(categoryMap) : categoryMap[i].label = trimmed}
        hits == labelHits(strtolower(trimmed))
    IN  IF exact # {} THEN categoryMap[firstOf(exact)].category
        ELSE IF hits # {} THEN categoryMap[firstOf(hits)].category
        ELSE "uncategorized"

\* updateDatabase: the normalized record of a line of the CSV
normalized(row) ==
    [name |-> row.name, domain |-> row.domain, isWildcard |-> row.wildcard = "1",
     category |-> normalizeCategory(row.category)]

\* updateDatabase: the records of the lines, without those that have no name
RECURSIVE parseRows(_)
parseRows(rows) ==
    IF rows = <<>> THEN <<>>
    ELSE IF empty(normalized(Head(rows)).name) THEN parseRows(Tail(rows))
    ELSE <<normalized(Head(rows))>> \o parseRows(Tail(rows))

\* the domain test of the exact-name and of the wildcard step
domainFits(domain, cookie) ==
    LET cookieDomain == strtolower(cookie.domain)
    IN  cookieDomain = domain \/ domainMatches(domain, cookieDomain)

\* an exact-name step that never looks at the domain
exactStep_firstCandidate(db, name, domain) ==
    LET cookie == db.cookies[db.indexes.byName[name][1]]
    IN  [category |-> cookie.category, confidence |-> "exact", matched |-> cookie]

\* the exact-name step of categorize
exactStep(db, name, domain) ==
    LET indexes == db.indexes.byName[name]
        hit == IF ~empty(domain)
               THEN firstOf({i \in 1..Len(indexes) :
                               domainFits(domain, db.cookies[indexes[i]])})
               ELSE 0
        cookie == db.cookies[indexes[IF hit = 0 THEN 1 ELSE hit]]
    IN  [category |-> cookie.category, confidence |-> "exact", matched |-> cookie]

\* the wildcard step of categorize: the index of the first pattern accepted
wildcardHit(db, name, domain) ==
    LET wildcards == db.indexes.wildcards
    IN  firstOf({i \in 1..Len(wildcards) :
                   /\ wildcardMatch(name, wildcards[i].pattern)
                   /\ LET cookie == db.cookies[wildcards[i].index]
                      IN  (~empty(domain) /\ ~empty(cookie.domain))
                             => domainFits(domain, cookie)})

\* categorize without its domain-only step
categorize_noDomainStep(db, overridesData, rawName, rawDomain) ==
    LET name == strtolower(rawName)
        domain == strtolower(rawDomain)
        overrides == getOverrides(overridesData)
        key == name \o (IF ~empty(domain) THEN <<"@">> \o domain ELSE <<>>)
        w == wildcardHit(db, name, domain)
    IN  IF db = Absent
        THEN [category |-> "uncategorized", confidence |-> "none", matched |-> NoRecord]
        ELSE IF key \in DOMAIN overrides
        THEN [category |-> overrides[key].category, confidence |-> "override",
              matched |-> overrides[key]]
        ELSE IF name \in DOMAIN db.indexes.byName
        THEN exactStep(db, name, domain)
        ELSE IF w # 0
        THEN LET cookie == db.cookies[db.indexes.wildcards[w].index]
             IN  [category |-> cookie.category, confidence |-> "wildcard",
                  matched |-> cookie]
        ELSE [category |-> "uncategorized", confidence |-> "none", matched |-> NoRecord]

\* categorize with the exact-name step ahead of the override lookup
categorize_exactFirst(db, overridesData, rawName, rawDomain) ==
    LET name == strtolower(rawName)
        domain == strtolower(rawDomain)
        overrides == getOverrides(overridesData)
        key == name \o (IF ~empty(domain) THEN <<"@">> \o domain ELSE <<>>)
        w == wildcardHit(db, name, domain)
    IN  IF db = Absent
        THEN [category |-> "uncategorized", confidence |-> "none", matched |-> NoRecord]
        ELSE IF name \in DOMAIN db.indexes.byName
        THEN exactStep(db, name, domain)
        ELSE IF key \in DOMAIN overrides
        THEN [category |-> overrides[key].category, confidence |-> "override",
              matched |-> overrides[key]]
        ELSE IF w # 0
        THEN LET cookie == db.cookies[db.indexes.wildcards[w].index]
             IN  [category |-> cookie.category, confidence |-> "wildcard",
                  matched |-> cookie]
        ELSE IF ~empty(domain) /\ domain \in DOMAIN db.indexes.byDomain
        THEN LET cookie == db.cookies[db.indexes.byDomain[domain][1]]
             IN  [category |-> cookie.category, confidence |-> "domain",
                  matched |-> cookie]
        ELSE [category |-> "uncategorized", confidence |-> "none", matched |-> NoRecord]

\* categorize with the wildcard step ahead of the exact-name step
categorize_wildcardFirst(db, overridesData, rawName, rawDomain) ==
    LET name == strtolower(rawName)
        domain == strtolower(rawDomain)
        overrides == getOverrides(overridesData)
        key == name \o (IF ~empty(domain) THEN <<"@">> \o domain ELSE <<>>)
        w == wildcardHit(db, name, domain)
    IN  IF db = Absent
        THEN [category |-> "uncategorized", confidence |-> "none", matched |-> NoRecord]
        ELSE IF key \in DOMAIN overrides
        THEN [category |-> overrides[key].category, confidence |-> "override",
              matched |-> overrides[key]]
        ELSE IF w # 0
        THEN LET cookie == db.cookies[db.indexes.wildcards[w].index]
             IN  [category |-> cookie.category, confidence |-> "wildcard",
                  matched |-> cookie]
        ELSE IF name \in DOMAIN db.indexes.byName
        THEN exactStep(db, name, domain)
        ELSE IF ~empty(domain) /\ domain \in DOMAIN db.indexes.byDomain
        THEN LET cookie == db.cookies[db.indexes.byDomain[domain][1]]
             IN  [category |-> cookie.category, confidence |-> "domain",
                  matched |-> cookie]
        ELSE [category |-> "uncategorized", confidence |-> "none", matched |-> NoRecord]

\* CookieDatabase::categorize after loadDatabase; db is $this->database
categorize(db, overridesData, rawName, rawDomain) ==
    LET name == strtolower(rawName)
        domain == strtolower(rawDomain)
        overrides == getOverrides(overridesData)
        key == name \o (IF ~empty(domain) THEN <<"@">> \o domain ELSE <<>>)
        w == wildcardHit(db, name, domain)
    IN  IF db = Absent
        THEN [category |-> "uncategorized", confidence |-> "none", matched |-> NoRecord]
        ELSE IF key \in DOMAIN overrides
        THEN [category |-> overrides[key].category, confidence |-> "override",
              matched |-> overrides[key]]
        ELSE IF name \in DOMAIN db.indexes.byName
        THEN exactStep(db, name, domain)
        ELSE IF w # 0
        THEN LET cookie == db.cookies[db.indexes.wildcards[w].index]
             IN  [category |-> cookie.category, confidence |-> "wildcard",
                  matched |-> cookie]
        ELSE IF ~empty(domain) /\ domain \in DOMAIN db.indexes.byDomain
        THEN LET cookie == db.cookies[db.indexes.byDomain[domain][1]]
             IN  [category |-> cookie.category, confidence |-> "domain",
                  matched |-> cookie]
        ELSE [category |-> "uncategorized", confidence |-> "none", matched |-> NoRecord]

\* the overrides of the data addOverride works on: the content read, or the
\* default data after a read that threw
overridesRead(file) ==
    IF readable(file) THEN file.overrides ELSE [k \in {} |-> NoRecord]

\* the entry addOverride builds; now is date('c')
overrideEntry(name, domain, category, reason, now) ==
    [name |-> name, domain |-> domain, category |-> category,
     reason |-> reason, timestamp |-> now]

\* an addOverride that keeps the reason of the entry it replaces
addOverride_keepsReason(file, name, domain, category, reason, now) ==
    LET old == overridesRead(file)
        key == overrideKey(name, domain)
        entry == overrideEntry(name, domain, category,
                               IF key \in DOMAIN old THEN old[key].reason ELSE reason,
                               now)
    IN  [overrides |-> [k \in DOMAIN old \cup {key} |->
                           IF k = key THEN entry ELSE old[k]],
         lastModified |-> now]

\* CookieDatabase::addOverride: read, set the entry of the key, write
addOverride(file, name, domain, category, reason, now) ==
    LET old == overridesRead(file)
        key == overrideKey(name, domain)
        entry == overrideEntry(name, domain, category, reason, now)
    IN  [overrides |-> [k \in DOMAIN old \cup {key} |->
                           IF k = key THEN entry ELSE old[k]],
         lastModified |-> now]

\* an exists() that never finds the file
exists_never(file) == FALSE

\* FileStorage::exists
exists(file) == file # Absent

\* loadDatabase when the cache file exists: keep a loaded database, else read
\* the cache; a failing read is caught and leaves the database null
loadFromCache(db, file) ==
    IF db # Absent THEN db
    ELSE IF readable(file) THEN file
    ELSE Absent

\* the files FileStorage::write works on
Disk == [cache |-> cacheFile, tmp |-> tmpFile]

\* a write that puts the content in the target file itself
writeTemp_inPlace(disk, content) == [disk EXCEPT !.cache = content]

\* FileStorage::write: fopen of the temporary file, then fwrite
writeTemp(disk, content) == [disk EXCEPT !.tmp = content]

\* FileStorage::write: unlink of the temporary file after a failure
unlinkTemp(disk) == [disk EXCEPT !.tmp = Absent]

\* FileStorage::write: rename of the temporary file to the target
renameTemp(disk) == [cache |-> disk.tmp, tmp |-> Absent]

\* the lines of the CSV a download can return: name, domain, the 'Wildcard
\* match' column and the category as the source writes it
Downloads ==
    { <<>>,
      <<[name |-> <<"a">>, domain |-> <<>>, wildcard |-> "0",
         category |-> <<"A", "n", "a", "l", "y", "t", "i", "c", "s">>]>>,
      <<[name |-> <<>>, domain |-> <<"e">>, wildcard |-> "0",
         category |-> <<"M", "a", "r", "k", "e", "t", "i", "n", "g">>],
        [name |-> <<"a", "*">>, domain |-> <<>>, wildcard |-> "1",
         category |-> <<" ", "f", "u", "n", "c", "t", "i", "o", "n", "a", "l", " ">>],
        [name |-> <<"A">>, domain |-> <<"e">>, wildcard |-> "0",
         category |-> <<"M", "a", "r", "k", "e", "t", "i", "n", "g">>]>>,
      <<[name |-> <<"c">>, domain |-> <<"s", ".", "E">>, wildcard |-> "0",
         category |-> <<"S", "e", "c", "u", "r", "i", "t", "y">>],
        [name |-> <<"0">>, domain |-> <<>>, wildcard |-> "0",
         category |-> <<>>],
        [name |-> <<"a", "?">>, domain |-> <<".", "e">>, wildcard |-> "1",
         category |-> <<"M", "a", "r", "k", "e", "t", "i", "n", "g", " ", "A", "n", "a", "l", "y", "t", "i", "c", "s">>]>> }

\* updateDatabase: what the call builds from the lines of each download: the
\* records it keeps and their indexes
refreshData == [rows \in Downloads |-> cacheData(parseRows(rows))]

\* the steps of updateDatabase at which an exception can leave the call
\* before the rename
Faults == {"none", "download", "encode", "temp", "fwrite"}

\* updateDatabase up to the rename: download, parse, buildIndexes,
\* json_encode, the temporary file
updateBegin(disk, rows, fault) ==
    IF fault \in {"download", "encode", "temp"}
    THEN [disk |-> disk, threw |-> TRUE]
    ELSE IF fault = "fwrite"
    THEN [disk |-> unlinkTemp(writeTemp(disk, Corrupt)), threw |-> TRUE]
    ELSE [disk |-> writeTemp(disk, refreshData[rows]), threw |-> FALSE]

\* the records, names and domains the model draws from
RecordSet ==
    { [name |-> <<"a">>, domain |-> <<>>, isWildcard |-> FALSE, category |-> "analytics"],
      [name |-> <<"A">>, domain |-> <<"e">>, isWildcard |-> FALSE, category |-> "marketing"],
      [name |-> <<"a", "*">>, domain |-> <<>>, isWildcard |-> TRUE, category |-> "preferences"],
      [name |-> <<"a", "?">>, domain |-> <<".", "e">>, isWildcard |-> TRUE, category |-> "marketing"],
      [name |-> <<"c">>, domain |-> <<"s", ".", "E">>, isWildcard |-> FALSE, category |-> "necessary"] }

Corpora == UNION {[1..k -> RecordSet] : k \in 0..MaxRecords}

QueryNames == {<<"a">>, <<"A">>, <<"a", ".">>, <<"a", "b">>}
QueryDomains == {<<>>, <<"e">>, <<"s", ".", "e">>, <<"s", "e">>}
OverrideNames == {<<"A">>, <<"a", "b">>}
OverrideDomains == {<<>>, <<"e">>}
OverrideCategories == {"necessary", "marketing"}

\* the reason the administrator gives with an override of each category
OverrideReason(category) == IF category = "necessary" THEN <<>> ELSE <<"r">>

\* ------------------------------------------------------------------------
\* Initial state: the SDK script has run, nothing has been inserted yet
\* ------------------------------------------------------------------------
\* what an earlier visit can have left in localStorage
StoredAtLoad ==
    {NoConsent, [state |-> [c \in Categories |-> c # "marketing"]]}

\* the fields of the SDK object and of the page before init()
InitSdk ==
    /\ consent = NoConsent
    /\ storageOk \in BOOLEAN
    /\ dom = <<>>
    /\ blockedScripts = <<>>
    /\ queues = <<>>
    /\ pendingInits = 0
    /\ initialized = FALSE
    /\ banner = 0
    /\ pcOpen = FALSE
    /\ pcAlias = FALSE
    /\ pcState = getDefaultState
    /\ trace = <<>>
    /\ asked = NoConsent
    /\ discovered = <<>>
    /\ moves = 0
    /\ removes = 0
    /\ inits = 0
    /\ receipt = "none"

InitCmp ==
    /\ stored \in StoredAtLoad
    /\ InitSdk

\* the back end at rest: an empty corpus is cached, no override is stored
InitDbIdle ==
    /\ cacheFile = cacheData(<<>>)
    /\ overridesFile = Absent
    /\ answer = NoAnswer
    /\ database = Absent
    /\ tmpFile = Absent
    /\ refresh = Idle

Init == InitCmp /\ InitDbIdle /\ fs = FsIdle

\* ------------------------------------------------------------------------
\* Handlers of the page and of the user, as functions of the state
\* ------------------------------------------------------------------------
Authored(w) == Cardinality({w.dom[n].root : n \in 1..Len(w.dom)})

\* the page adds a script element to the document
insertScript(w, m, t) ==
    [w EXCEPT !.dom = Append(@, [marker |-> m, type |-> t, otype |-> t,
                                 blocked |-> FALSE,
                                 inDoc |-> TRUE, root |-> Authored(w) + 1,
                                 gen |-> 0, text |-> Authored(w) + 1,
                                 attrs |-> authoredAttributes(m, t)]),
              !.queues = Enqueue(@, Len(w.dom) + 1)]

\* the page removes a script element from the document
removeScript(w, n) == [w EXCEPT !.dom[n].inDoc = FALSE, !.removes = @ + 1]

\* the page moves a script element: it is reported as an added node again
moveScript(w, n) == [w EXCEPT !.queues = Enqueue(@, n), !.moves = @ + 1]

\* the callbacks of the mutation observers: each observer hands its records,
\* in order, to handleScript
RECURSIVE deliver(_, _)
deliver(w, k) ==
    IF k > Len(w.queues) THEN w
    ELSE deliver(handleAll([w EXCEPT !.queues[k] = <<>>], w.queues[k]), k + 1)

\* hideBanner
hideBanner(w) == [w EXCEPT !.banner = @ - 1]

\* PreferenceCenter.show
show(w) ==
    [w EXCEPT !.pcOpen = TRUE,
              !.pcAlias = HasState(w.consent),
              !.pcState = getDefaultState]

\* PreferenceCenter.hide
hide(w) ==
    [w EXCEPT !.pcOpen = FALSE, !.pcAlias = FALSE, !.pcState = getDefaultState]

\* the object PreferenceCenter.currentState
currentState(w) == IF w.pcAlias THEN w.consent.state ELSE w.pcState

\* change handler of a category checkbox: this.currentState[category] = checked
toggle(w, category, checked) ==
    IF w.pcAlias
    THEN [w EXCEPT !.consent.state[category] = checked]
    ELSE [w EXCEPT !.pcState[category] = checked]

\* PreferenceCenter.save
save(w) ==
    LET w1 == saveConsent(w, currentState(w))
    IN  IF Threw(w1) THEN w1 ELSE hide(w1)

\* click handlers of the banner's Accept All and Reject All buttons
clickAccept(w) ==
    LET w1 == saveConsent(w, AcceptAllState)
    IN  IF Threw(w1) THEN w1 ELSE hideBanner(w1)

clickReject(w) ==
    LET w1 == saveConsent(w, RejectAllState)
    IN  IF Threw(w1) THEN w1 ELSE hideBanner(w1)

\* ------------------------------------------------------------------------
\* Actions
\* ------------------------------------------------------------------------
\* Observer callbacks are microtasks: they have run before the browser starts
\* the next task (a user event, the completion of the configuration fetch).
\* Calls made by page script (DOM changes, the public API) can precede them.
TaskBoundary == \A k \in 1..Len(queues) : queues[k] = <<>>

\* CMP.init up to 'await this.loadConfig()'
InitCall ==
    /\ ~initialized
    /\ inits < MaxInits
    /\ inits' = inits + 1
    /\ pendingInits' = pendingInits + 1
    /\ Commit(World)

\* CMP.init from the await on
InitResume ==
    /\ TaskBoundary
    /\ pendingInits > 0
    /\ \E blocking \in BOOLEAN, dnt \in BOOLEAN :
          LET w == initRest(World, blocking, dnt)
          IN  /\ Len(w.dom) <= MaxNodes
              /\ Commit(w)
    /\ pendingInits' = pendingInits - 1
    /\ UNCHANGED inits

InsertScript ==
    /\ Authored(World) < MaxScripts
    /\ Len(dom) < MaxNodes
    /\ \E m \in Markers, t \in {NoType, TextPlain} :
          Commit(insertScript(World, m, t))
    /\ UNCHANGED <<pendingInits, inits>>

\* node n is referenced by CMP.blockedScripts
Registered(n) == \E i \in 1..Len(blockedScripts) : blockedScripts[i].script = n

\* the page removes a script element the gate has registered (the removal of
\* any other script is not observable by the SDK)
RemoveScript ==
    /\ removes < MaxRemoves
    /\ \E n \in 1..Len(dom) :
          /\ dom[n].inDoc
          /\ Registered(n)
          /\ Commit(removeScript(World, n))
    /\ UNCHANGED <<pendingInits, inits>>

MoveScript ==
    /\ moves < MaxMoves
    /\ \E n \in 1..Len(dom) :
          /\ dom[n].inDoc
          /\ Commit(moveScript(World, n))
    /\ UNCHANGED <<pendingInits, inits>>

Observe ==
    /\ \E k \in 1..Len(queues) : queues[k] # <<>>
    /\ Commit(deliver(World, 1))
    /\ UNCHANGED <<pendingInits, inits>>

\* CMP.updateConsent / acceptAll / rejectAll called through the public API
UpdateConsent ==
    /\ \E d \in Decisions :
          LET w == saveConsent(World, d)
          IN  /\ Len(w.dom) <= MaxNodes
              /\ Commit(w)
    /\ UNCHANGED <<pendingInits, inits>>

ClickAccept ==
    /\ TaskBoundary
    /\ banner > 0
    /\ LET w == clickAccept(World)
       IN  /\ Len(w.dom) <= MaxNodes
           /\ Commit(w)
    /\ UNCHANGED <<pendingInits, inits>>

ClickReject ==
    /\ TaskBoundary
    /\ banner > 0
    /\ LET w == clickReject(World)
       IN  /\ Len(w.dom) <= MaxNodes
           /\ Commit(w)
    /\ UNCHANGED <<pendingInits, inits>>

\* click on the banner's Customize button, or showCookiePreferences()
ShowPreferences ==
    /\ TaskBoundary
    /\ initialized
    /\ ~pcOpen
    /\ Commit(show(IF banner > 0 THEN hideBanner(World) ELSE World))
    /\ UNCHANGED <<pendingInits, inits>>

\* the user flips the checkbox of an unlocked category
Toggle ==
    /\ TaskBoundary
    /\ pcOpen
    /\ \E c \in Categories \ {"necessary"} :
          Commit(toggle(World, c, ~currentState(World)[c]))
    /\ UNCHANGED <<pendingInits, inits>>

\* Cancel, the close button, the overlay or Escape
Hide ==
    /\ TaskBoundary
    /\ pcOpen
    /\ Commit(hide(World))
    /\ UNCHANGED <<pendingInits, inits>>

Save ==
    /\ TaskBoundary
    /\ pcOpen
    /\ LET w == save(World)
       IN  /\ Len(w.dom) <= MaxNodes
           /\ Commit(w)
    /\ UNCHANGED <<pendingInits, inits>>

\* The gate on a page whose scripts come, move and go; storage may be broken.
Next ==
    \/ InitCall
    \/ InitResume
    \/ InsertScript
    \/ RemoveScript
    \/ MoveScript
    \/ Observe
    \/ UpdateConsent
    \/ ClickAccept
    \/ ClickReject

Spec == Init /\ [][Next]_vars

\* the answer to the receipt request arrives: the server stored the receipt
\* (consent.php answers 200), or the request failed or was answered 500
\* because ConsentLogger::log returned false
ReceiptOutcomes == {"stored", "failed"}

ReceiptSettles ==
    /\ TaskBoundary
    /\ receipt = "pending"
    /\ \E outcome \in ReceiptOutcomes : Commit(receiptSettled(World, outcome))
    /\ UNCHANGED <<pendingInits, inits>>

\* The gate and the public API on a page whose scripts stay where they were
\* inserted, with the answers to the receipt requests.
NextReceipt ==
    \/ InitCall
    \/ InitResume
    \/ InsertScript
    \/ Observe
    \/ UpdateConsent
    \/ ClickAccept
    \/ ClickReject
    \/ ReceiptSettles

SpecReceipt == Init /\ [][NextReceipt]_vars

\* a visit can also start with an item that is valid JSON without a state map
StoredAnyShape == StoredAtLoad \cup {Malformed}

\* the values of data-category a page can use besides the configured ones
AnyMarkers == Markers \cup {"uncategorized", "constructor"}

InitLoad ==
    /\ stored \in StoredAnyShape
    /\ InitSdk
    /\ InitDbIdle
    /\ fs = FsIdle

InsertMarked ==
    /\ Authored(World) < MaxScripts
    /\ Len(dom) < MaxNodes
    /\ \E m \in AnyMarkers, t \in {NoType, TextPlain} :
          Commit(insertScript(World, m, t))
    /\ UNCHANGED <<pendingInits, inits>>

\* The gate on a page that uses any marker value, on a visit that starts with
\* any stored item.
NextLoad ==
    \/ InitCall
    \/ InitResume
    \/ InsertMarked
    \/ Observe
    \/ UpdateConsent

SpecLoad == InitLoad /\ [][NextLoad]_vars

\* CMP.init up to 'await this.loadConfig()', called by the SDK script itself
\* or by the page
InitCallAny ==
    /\ ~initialized
    /\ inits < MaxInitCalls
    /\ inits' = inits + 1
    /\ pendingInits' = pendingInits + 1
    /\ Commit(World)

\* The page calls CMP.init() besides the automatic call.
NextInit ==
    \/ InitCallAny
    \/ InitResume
    \/ InsertScript
    \/ Observe
    \/ ClickAccept

SpecInit == Init /\ [][NextInit]_vars

\* a script the browser runs as an ES module
TextModule == "module"

\* the page adds a script element that is executable as written, with or
\* without a type attribute
InsertTyped ==
    /\ Authored(World) < MaxScripts
    /\ Len(dom) < MaxNodes
    /\ \E m \in Markers, t \in {NoType, TextModule} :
          Commit(insertScript(World, m, t))
    /\ UNCHANGED <<pendingInits, inits>>

\* The gate on a page whose scripts carry their own type attribute.
NextTyped ==
    \/ InitCall
    \/ InitResume
    \/ InsertTyped
    \/ MoveScript
    \/ Observe
    \/ UpdateConsent

SpecTyped == Init /\ [][NextTyped]_vars

\* The gate together with the preference center, on a page with working storage
\* whose scripts stay where they were inserted.
InitPC == Init /\ storageOk

NextPC ==
    \/ InitCall
    \/ InitResume
    \/ InsertScript
    \/ Observe
    \/ UpdateConsent
    \/ ClickAccept
    \/ ClickReject
    \/ ShowPreferences
    \/ Toggle
    \/ Hide
    \/ Save

SpecPC == InitPC /\ [][NextPC]_vars

\* ------------------------------------------------------------------------
\* The back end: requests that categorise a cookie and that add an override
\* ------------------------------------------------------------------------
InitDb ==
    /\ InitCmp /\ stored = NoConsent /\ storageOk
    /\ cacheFile \in {cacheData(cookies) : cookies \in Corpora} \cup {Absent, Corrupt}
    /\ overridesFile \in {Absent, Corrupt}
    /\ answer = NoAnswer
    /\ database = Absent
    /\ tmpFile = Absent
    /\ refresh = Idle
    /\ fs = FsIdle

\* no updateDatabase call is between its write and its rename
Settled == refresh \in {Idle, Failed}

\* what the call answers once the database is loaded (or is left null)
answerOf(db, name, domain) ==
    [name |-> name, domain |-> domain,
     result |-> categorize(db, overridesFile, name, domain)]

\* updateDatabase from its download to the temporary file; query is the
\* categorize call that waits for it, NoAnswer for a direct call
BeginUpdate(query) ==
    \E rows \in Downloads, fault \in Faults :
        LET r == updateBegin(Disk, rows, fault)
        IN  /\ cacheFile' = r.disk.cache
            /\ tmpFile' = r.disk.tmp
            /\ database' = database
            /\ IF r.threw
               THEN /\ refresh' = Failed
                    /\ answer' = IF query = NoAnswer THEN NoAnswer
                                 ELSE [query EXCEPT !.result = Raised]
               ELSE /\ refresh' = [stage |-> "written", query |-> query,
                                    rows |-> rows]
                    /\ answer' = NoAnswer

\* a call of categorize(name, domain): loadDatabase, then the lookup
Categorize ==
    /\ Settled
    /\ \E name \in QueryNames, domain \in QueryDomains :
          IF database = Absent /\ ~exists(cacheFile)
          THEN BeginUpdate([name |-> name, domain |-> domain, result |-> NoAnswer])
          ELSE /\ database' = loadFromCache(database, cacheFile)
               /\ answer' = answerOf(database', name, domain)
               /\ refresh' = Idle
               /\ UNCHANGED <<cacheFile, tmpFile>>
    /\ UNCHANGED overridesFile
    /\ UNCHANGED <<cmpvars, fs>>

\* a call of updateDatabase(forceRefresh); recent tells whether the cache is
\* less than seven days old
UpdateDatabase ==
    /\ Settled
    /\ \E forceRefresh \in BOOLEAN, recent \in BOOLEAN :
          IF ~forceRefresh /\ readable(cacheFile) /\ recent
          THEN /\ refresh' = Idle
               /\ answer' = NoAnswer
               /\ UNCHANGED <<cacheFile, tmpFile, database>>
          ELSE BeginUpdate(NoAnswer)
    /\ UNCHANGED overridesFile
    /\ UNCHANGED <<cmpvars, fs>>

\* the end of updateDatabase: the rename, the assignment of $this->database,
\* and the lookup of the categorize call that waited for it
FinishUpdate ==
    /\ ~Settled
    /\ \E renamed \in BOOLEAN :
          IF renamed
          THEN /\ cacheFile' = renameTemp(Disk).cache
               /\ tmpFile' = renameTemp(Disk).tmp
               /\ database' = tmpFile
               /\ refresh' = Idle
               /\ answer' = IF refresh.query = NoAnswer THEN NoAnswer
                            ELSE answerOf(database', refresh.query.name,
                                          refresh.query.domain)
          ELSE /\ cacheFile' = unlinkTemp(Disk).cache
               /\ tmpFile' = unlinkTemp(Disk).tmp
               /\ database' = database
               /\ refresh' = Failed
               /\ answer' = IF refresh.query = NoAnswer THEN NoAnswer
                            ELSE [refresh.query EXCEPT !.result = Raised]
    /\ UNCHANGED overridesFile
    /\ UNCHANGED <<cmpvars, fs>>

\* the time of the next addOverride call: one later than the store's
\* lastModified
Now == IF readable(overridesFile) THEN overridesFile.lastModified + 1 ELSE 1

\* a call of addOverride(name, domain, category, reason)
AddOverride ==
    /\ Settled
    /\ Now <= MaxAdds
    /\ \E name \in OverrideNames, domain \in OverrideDomains,
          category \in OverrideCategories :
          LET file == addOverride(overridesFile, name, domain, category,
                                  OverrideReason(category), Now)
          IN  /\ Cardinality(DOMAIN file.overrides) <= MaxOverrides
              /\ overridesFile' = file
    /\ answer' = NoAnswer
    /\ refresh' = Idle
    /\ UNCHANGED <<cacheFile, tmpFile, database>>
    /\ UNCHANGED <<cmpvars, fs>>

\* the next request: PHP builds a new CookieDatabase object
NewRequest ==
    /\ Settled
    /\ database # Absent
    /\ database' = Absent
    /\ answer' = NoAnswer
    /\ refresh' = Idle
    /\ UNCHANGED <<cacheFile, tmpFile, overridesFile>>
    /\ UNCHANGED <<cmpvars, fs>>

NextDb ==
    \/ Categorize
    \/ UpdateDatabase
    \/ FinishUpdate
    \/ AddOverride
    \/ NewRequest

SpecDb == InitDb /\ [][NextDb]_vars

\* ------------------------------------------------------------------------
\* FileStorage under concurrent requests: the override store and the consent
\* log, with every file operation of write and append as a step of its own
\* ------------------------------------------------------------------------
Procs == 1..MaxProcs

\* ConsentLogger::log hashes an identifier shorter than this
MinOpaqueLength == 32

\* the length of the hexadecimal SHA-256 digest
Sha256HexLength == 64

\* an empty PHP array
EmptyArray == [count |-> 0]

\* the session identifiers and consent states a caller of log() supplies
SessionIds == { [text |-> "s", length |-> MinOpaqueLength - 1],
                [text |-> "t", length |-> MinOpaqueLength] }
ConsentStates == {EmptyArray, AcceptAllState}

strlen(id) == id.length

\* hash('sha256', $sessionId . $_SERVER['REMOTE_ADDR'])
sha256(id) == [sha256 |-> id.text, length |-> Sha256HexLength]

\* a logger that stores every identifier as it was supplied
storedSessionId_asSupplied(sessionId) == sessionId

\* ConsentLogger::log: the identifier that goes into the entry
storedSessionId(sessionId) ==
    IF strlen(sessionId) < MinOpaqueLength THEN sha256(sessionId) ELSE sessionId

\* ConsentLogger::log: the entry handed to FileStorage::append
logEntry(consentState, sessionId) ==
    [sessionId |-> storedSessionId(sessionId), consentState |-> consentState]

\* the two buffers in which fwrite hands a line to the file
Parts == 1..2

\* a flock that grants the exclusive lock whoever holds it
canLock_always(holder, p) == TRUE

\* flock(LOCK_EX) on the log file returns once no other handle holds the lock
canLock(holder, p) == holder = 0

\* a write that opens the target file itself with mode 'w'
openTemp_inPlace(files, p) == [files EXCEPT !.store = Corrupt]

\* FileStorage::write: fopen($tempPath, 'w') creates the temporary file, empty
openTemp(files, p) == [files EXCEPT !.tmp[p] = Corrupt]

\* the state of FileStorage before any request
FsInit ==
    { [store |-> st,
       tmp |-> [p \in Procs |-> Absent],
       log |-> <<>>,
       lock |-> 0,
       pc |-> [p \in Procs |-> "idle"],
       local |-> [p \in Procs |-> NoRecord],
       arg |-> [p \in Procs |-> NoRecord],
       result |-> [p \in Procs |-> NoAnswer],
       seen |-> NoAnswer,
       calls |-> 0] :
      st \in {Absent, [overrides |-> [k \in {} |-> NoRecord], lastModified |-> 0]} }

InitFs ==
    /\ InitCmp /\ stored = NoConsent /\ storageOk
    /\ InitDbIdle
    /\ fs \in FsInit

\* what a call that returned left to its caller: the value returned and the
\* key of the call (of addOverride; none for log)
Returned(value, key) == [returned |-> value, key |-> key]

\* the call of process p ends; result is what it returns, Raised when it throws
EndCall(f, p, result) ==
    [f EXCEPT !.pc[p] = "idle", !.local[p] = NoRecord, !.arg[p] = NoRecord,
              !.result[p] = result]

\* addOverride up to its write: FileStorage::read (or the default data), the
\* new entry, lastModified
AddOverrideRead ==
    /\ \E p \in Procs :
        /\ fs.pc[p] = "idle"
        /\ fs.calls < MaxCalls
        /\ \E name \in OverrideNames :
              fs' = [fs EXCEPT !.pc[p] = "read",
                               !.calls = @ + 1,
                               !.result[p] = NoAnswer,
                               !.arg[p] = overrideKey(name, <<>>),
                               !.local[p] = addOverride(fs.store, name, <<>>, "necessary",
                                                        <<>>, fs.calls + 1)]
    /\ UNCHANGED <<cmpvars, dbvars>>

\* FileStorage::write: json_encode and fopen of the temporary file
WriteOpen ==
    /\ \E p \in Procs :
        /\ fs.pc[p] = "read"
        /\ \E ok \in BOOLEAN :
              fs' = IF ok
                    THEN LET files == openTemp([store |-> fs.store, tmp |-> fs.tmp], p)
                         IN  [fs EXCEPT !.store = files.store, !.tmp = files.tmp,
                                        !.pc[p] = "open"]
                    ELSE EndCall(fs, p, Raised)
    /\ UNCHANGED <<cmpvars, dbvars>>

\* FileStorage::write: flock of the temporary file, fwrite, unlock, fclose;
\* unlink when fwrite returned false
WriteData ==
    /\ \E p \in Procs :
        /\ fs.pc[p] = "open"
        /\ \E ok \in BOOLEAN :
              fs' = IF ok
                    THEN [fs EXCEPT !.tmp[p] = fs.local[p], !.pc[p] = "written"]
                    ELSE EndCall([fs EXCEPT !.tmp[p] = Absent], p, Raised)
    /\ UNCHANGED <<cmpvars, dbvars>>

\* FileStorage::write: rename of the temporary file to the target; unlink when
\* rename returned false
WriteRename ==
    /\ \E p \in Procs :
        /\ fs.pc[p] = "written"
        /\ \E ok \in BOOLEAN :
              fs' = IF ok
                    THEN EndCall([fs EXCEPT !.store = fs.tmp[p], !.tmp[p] = Absent],
                                 p, Returned(TRUE, fs.arg[p]))
                    ELSE EndCall([fs EXCEPT !.tmp[p] = Absent], p, Raised)
    /\ UNCHANGED <<cmpvars, dbvars>>

\* a request reads the override store: what the bytes of the file are
ReadStore ==
    /\ fs.seen # fs.store
    /\ fs' = [fs EXCEPT !.seen = fs.store]
    /\ UNCHANGED <<cmpvars, dbvars>>

\* ConsentLogger::log up to the append: the validation, the identifier, the entry
LogCall ==
    /\ \E p \in Procs :
        /\ fs.pc[p] = "idle"
        /\ fs.calls < MaxCalls
        /\ \E consentState \in ConsentStates, sessionId \in SessionIds :
              fs' = IF consentState = EmptyArray
                    THEN EndCall([fs EXCEPT !.calls = @ + 1], p, Raised)
                    ELSE [fs EXCEPT !.pc[p] = "appendOpen",
                                    !.calls = @ + 1,
                                    !.result[p] = NoAnswer,
                                    !.arg[p] = sessionId,
                                    !.local[p] = logEntry(consentState, sessionId)]
    /\ UNCHANGED <<cmpvars, dbvars>>

\* FileStorage::append: fopen with mode 'a' and flock(LOCK_EX); log() catches
\* the exception of a failure and returns false
AppendLock ==
    /\ \E p \in Procs :
        /\ fs.pc[p] = "appendOpen"
        /\ \E ok \in BOOLEAN :
              IF ok
              THEN /\ canLock(fs.lock, p)
                   /\ fs' = [fs EXCEPT !.lock = p, !.pc[p] = "locked"]
              ELSE fs' = EndCall(fs, p, Returned(FALSE, <<>>))
    /\ UNCHANGED <<cmpvars, dbvars>>

\* the line of the entry, in the buffers fwrite writes it with
Fragment(p, part) == [by |-> p, part |-> part, entry |-> fs.local[p]]

\* FileStorage::append: fwrite starts, under the lock; when it returns false
\* the lock is released and log() returns false
AppendWrite ==
    /\ \E p \in Procs :
        /\ fs.pc[p] = "locked"
        /\ \E ok \in BOOLEAN :
              fs' = IF ok
                    THEN [fs EXCEPT !.log = Append(@, Fragment(p, 1)), !.pc[p] = "half"]
                    ELSE EndCall([fs EXCEPT !.lock = IF @ = p THEN 0 ELSE @], p,
                                 Returned(FALSE, <<>>))
    /\ UNCHANGED <<cmpvars, dbvars>>

\* FileStorage::append: fwrite completes the line, flock(LOCK_UN), fclose;
\* log() returns true
AppendRest ==
    /\ \E p \in Procs :
        /\ fs.pc[p] = "half"
        /\ fs' = EndCall([fs EXCEPT !.log = Append(@, Fragment(p, 2)),
                                    !.lock = IF @ = p THEN 0 ELSE @], p,
                         Returned(TRUE, <<>>))
    /\ UNCHANGED <<cmpvars, dbvars>>

NextFs ==
    \/ AddOverrideRead
    \/ WriteOpen
    \/ WriteData
    \/ WriteRename
    \/ ReadStore
    \/ LogCall
    \/ AppendLock
    \/ AppendWrite
    \/ AppendRest

SpecFs == InitFs /\ [][NextFs]_vars

\* ------------------------------------------------------------------------
\* The consent log as the admin dashboard reads it (ConsentLogger::getLogs,
\* ConsentLogger::getStats, api/admin/stats.php)
\* ------------------------------------------------------------------------
\* array_reverse
RECURSIVE array_reverse(_)
array_reverse(list) ==
    IF list = <<>> THEN <<>>
    ELSE Append(array_reverse(Tail(list)), Head(list))

\* FileStorage::readLines from line lineNum on: lines before the offset are
\* passed over, a line that does not decode is left out, and reading stops
\* once limit entries have been collected (limit 0: no limit)
RECURSIVE readFrom(_, _, _, _, _)
readFrom(file, lineNum, limit, offset, lines) ==
    IF lineNum > Len(file) THEN lines
    ELSE IF lineNum - 1 >= offset /\ file[lineNum] # Corrupt
    THEN IF limit > 0 /\ Len(lines) + 1 >= limit
         THEN Append(lines, file[lineNum])
         ELSE readFrom(file, lineNum + 1, limit, offset, Append(lines, file[lineNum]))
    ELSE readFrom(file, lineNum + 1, limit, offset, lines)

\* FileStorage::readLines
readLines(file, limit, offset) == readFrom(file, 1, limit, offset, <<>>)

\* ConsentLogger::getLogs
getLogs(file, limit, offset) == array_reverse(readLines(file, limit, offset))

\* getStats: the flags of the loop over the categories of one receipt
allAccepted(consentState) ==
    \A category \in DOMAIN consentState :
        ~consentState[category] => category = "necessary"

allRejected(consentState) ==
    \A category \in DOMAIN consentState : ~consentState[category]

\* getStats: the counter a receipt is added to
consentType(consentState) ==
    IF allAccepted(consentState) THEN "acceptedAll"
    ELSE IF allRejected(consentState) THEN "rejectedAll"
    ELSE "customized"

\* getStats: the receipts at or after the cutoff (cutoff 0: all)
counted(logs, cutoff) ==
    SelectSeq(logs, LAMBDA log : ~(cutoff > 0 /\ log.timestamp < cutoff))

\* ConsentLogger::getStats, its counters of receipts and of consent types
getStats(file, cutoff) ==
    LET logs == counted(readLines(file, 0, 0), cutoff)
        count(type) ==
            Cardinality({i \in 1..Len(logs) : consentType(logs[i].consentState) = type})
    IN  [total |-> Len(logs),
         acceptedAll |-> count("acceptedAll"),
         rejectedAll |-> count("rejectedAll"),
         customized |-> count("customized")]

\* the line ConsentLogger::log appends; now is date('c')
receiptLine(consentState, now) ==
    [timestamp |-> now, consentState |-> consentState]

\* no dashboard call has been answered
NoReply == [call |-> "none"]

InitLog ==
    /\ InitCmp /\ stored = NoConsent /\ storageOk
    /\ InitDbIdle
    /\ fs = [log |-> <<>>, reply |-> NoReply]

\* api/consent.php: a receipt of the SDK is appended to the log
LogReceipt ==
    /\ Len(fs.log) < MaxLogged
    /\ \E consentState \in Decisions :
          fs' = [log |-> Append(fs.log, receiptLine(consentState, Len(fs.log) + 1)),
                 reply |-> NoReply]
    /\ UNCHANGED <<cmpvars, dbvars>>

\* a call of getLogs(limit, offset)
GetLogs ==
    /\ \E limit \in 0..MaxLimit, offset \in 0..MaxLimit :
          fs' = [fs EXCEPT !.reply = [call |-> "getLogs", limit |-> limit,
                                      offset |-> offset,
                                      logs |-> getLogs(fs.log, limit, offset)]]
    /\ UNCHANGED <<cmpvars, dbvars>>

\* a call of getStats(days); the cutoff is the time days before now, 0 for
\* days = 0
GetStats ==
    /\ \E cutoff \in 0..Len(fs.log) :
          fs' = [fs EXCEPT !.reply = [call |-> "getStats", cutoff |-> cutoff,
                                      stats |-> getStats(fs.log, cutoff)]]
    /\ UNCHANGED <<cmpvars, dbvars>>

NextLog ==
    \/ LogReceipt
    \/ GetLogs
    \/ GetStats

SpecLog == InitLog /\ [][NextLog]_vars

\* ------------------------------------------------------------------------
\* Vocabulary of the properties
\* ------------------------------------------------------------------------
Gated(m) == m \notin {"none", "necessary"}

Granted(c, m) == c # NoConsent /\ Lookup(c.state, m)

\* the node is a non-executing placeholder made by the gate
BlockedNode(node) == node.type = TextPlain /\ node.blocked

\* the node is in the document in executable form
ExecutableNode(node) == node.inDoc /\ node.type # TextPlain

Pending(qs, n) == \E k \in 1..Len(qs) : InSeq(n, qs[k])

\* this step is a run of the observer callbacks
ObserveStep ==
    /\ \E k \in 1..Len(queues) : queues[k] # <<>>
    /\ Len(queues') = Len(queues)
    /\ \A k \in 1..Len(queues') : queues'[k] = <<>>

\* this step is a saveConsent call (a set()), alone or inside a handler
SetStep == trace' # <<>> /\ trace'[1] = "assign"

Pos(x, s) == CHOOSE i \in 1..Len(s) : s[i] = x

\* ------------------------------------------------------------------------
\* Properties
\* ------------------------------------------------------------------------
\* C1: whenever handleScript handles an element with a non-necessary marker
\* while no decision exists or its category is not granted, the element ends
\* as a placeholder of type text/plain that carries the data-blocked marker.
C1_HandledUnconsentedIsBlocked ==
    [][ObserveStep =>
          \A n \in 1..Len(dom) :
              (Pending(queues, n) /\ Gated(dom[n].marker)
                 /\ ~Granted(consent, dom[n].marker))
              => BlockedNode(dom'[n])]_vars

\* C2: when a set() makes category X true, every element that is Blocked in
\* category X at that moment is Active when the call returns.
C2_GrantActivatesEveryBlocked ==
    [][SetStep =>
          \A n \in 1..Len(dom) :
              (dom[n].inDoc /\ BlockedNode(dom[n]) /\ Granted(consent', dom[n].marker))
              => \E m \in 1..Len(dom') :
                    dom'[m].root = dom[n].root /\ ExecutableNode(dom'[m])]_vars

\* C3: gate monotonicity: an element that is Active (handled by the gate and
\* executable) is never made a Blocked placeholder by a later step.
C3_ActiveNeverBlockedAgain ==
    [][\A n \in 1..Len(dom) :
          (Gated(dom[n].marker) /\ InSeq(dom[n].root, discovered)
             /\ ExecutableNode(dom[n]))
          => ~BlockedNode(dom'[n])]_vars

\* C4: an element without marker, or marked 'necessary', is never blocked,
\* rewritten or registered by the gate, whatever the consent state.
C4_UngatedUntouched ==
    \A n \in 1..Len(dom) :
        ~Gated(dom[n].marker) =>
            /\ dom[n].type = dom[n].otype
            /\ ~dom[n].blocked
            /\ dom[n].gen = 0
            /\ ~\E i \in 1..Len(blockedScripts) : blockedScripts[i].script = n

\* C4 witness: the gate has handled an unmarked and a 'necessary' element before
\* any decision existed and, since then, blocked a gated one.
C4_Witness ==
    /\ consent = NoConsent
    /\ \E n, m \in 1..Len(dom) :
          /\ dom[n].marker = "necessary" /\ InSeq(dom[n].root, discovered)
          /\ Gated(dom[m].marker) /\ BlockedNode(dom[m])
    /\ \A k \in 1..Len(queues) : queues[k] = <<>>

\* the clones a step has put in the document, in the order of their creation
NewRoots == [i \in 1..(Len(dom') - Len(dom)) |-> dom'[Len(dom) + i].root]

\* C5: a grant activates the Blocked elements in the order of their discovery,
\* and over the whole run no element is converted from placeholder to
\* executable form more than once.
C5_FifoAndOnce ==
    /\ [][SetStep =>
            \A i, j \in 1..Len(NewRoots) :
                i < j => Pos(NewRoots[i], discovered) < Pos(NewRoots[j], discovered)]_vars
    /\ [](\A n \in 1..Len(dom) : dom[n].gen <= 1)

C8_NecessaryAlwaysTrue ==
    consent # NoConsent => consent.state["necessary"]

\* C9: while the preference center is open, nothing but a set() changes the
\* decision returned by getConsent(): toggling and closing without Save leave
\* it as it was.
C9_OnlySetChangesConsent ==
    [][(pcOpen /\ ~SetStep) => consent' = consent]_vars

TypeOK ==
    /\ consent \in {NoConsent} \cup {[state |-> d] : d \in [Categories -> BOOLEAN]}
    /\ stored \in {NoConsent} \cup {[state |-> d] : d \in [Categories -> BOOLEAN]}
    /\ Len(dom) <= MaxNodes
    /\ banner \in 0..MaxInits
    /\ pendingInits \in 0..MaxInits


\* ------------------------------------------------------------------------
\* Vocabulary of the matcher's properties, over the records themselves
\* ------------------------------------------------------------------------
\* '*' stands for zero or more arbitrary characters, '?' for exactly one
RECURSIVE globMatch(_, _)
globMatch(name, pattern) ==
    IF pattern = <<>> THEN name = <<>>
    ELSE IF Head(pattern) = "*"
         THEN \/ globMatch(name, Tail(pattern))
              \/ (name # <<>> /\ globMatch(Tail(name), pattern))
    ELSE IF Head(pattern) = "?"
         THEN name # <<>> /\ globMatch(Tail(name), Tail(pattern))
    ELSE name # <<>> /\ Head(name) = Head(pattern)
            /\ globMatch(Tail(name), Tail(pattern))

\* the latest call returned a classification from a loaded database
Answered == answer # NoAnswer /\ answer.result # Raised /\ database # Absent
AskedName == strtolower(answer.name)
AskedDomain == strtolower(answer.domain)
Records == {database.cookies[i] : i \in 1..Len(database.cookies)}

OverrideApplies ==
    overrideKey(answer.name, answer.domain) \in DOMAIN getOverrides(overridesFile)

ExactApplies ==
    \E r \in Records : ~r.isWildcard /\ strtolower(r.name) = AskedName

\* the domain filter of the wildcard rule
PassesDomainFilter(r) ==
    (~empty(AskedDomain) /\ ~empty(r.domain)) => domainFits(AskedDomain, r)

WildcardApplies ==
    \E r \in Records :
        /\ r.isWildcard
        /\ globMatch(AskedName, strtolower(r.name))
        /\ PassesDomainFilter(r)

\* the same rule with the pattern test the code performs
WildcardAccepted ==
    \E r \in Records :
        /\ r.isWildcard
        /\ wildcardMatch(AskedName, r.name)
        /\ PassesDomainFilter(r)

DomainApplies ==
    /\ ~empty(AskedDomain)
    /\ \E r \in Records : strtolower(r.domain) = AskedDomain

\* the confidence of the first rule in the order override, exact name,
\* wildcard, domain-only, none, given which wildcard records count as matching
FirstRule(wildcardApplies) ==
    IF OverrideApplies THEN "override"
    ELSE IF ExactApplies THEN "exact"
    ELSE IF wildcardApplies THEN "wildcard"
    ELSE IF DomainApplies THEN "domain"
    ELSE "none"

\* C10: classify returns the result of the first applicable rule in the order
\* override, exact name, wildcard, domain-only, none: an applicable override
\* wins over every record, an exact-name record over every matching wildcard
\* record, a matching wildcard record over every domain-only record.
C10_FirstApplicableRule ==
    Answered => answer.result.confidence = FirstRule(WildcardApplies)

\* The order of the steps of categorize, relative to the names that
\* wildcardMatch accepts: the answer is that of the first step that fires.
CategorizeStepOrder ==
    Answered => answer.result.confidence = FirstRule(WildcardAccepted)


\* the entry the override store holds for the name of the latest call, when
\* the call gave no domain
NameOverride == getOverrides(overridesFile)[overrideKey(answer.name, <<>>)]

\* C11: once addOverride(x, no domain, c) has stored its entry, every
\* categorize(x) answered from a loaded corpus returns category c with
\* confidence 'override' and that entry, whatever the corpus holds for x; and
\* addOverride leaves under its key an entry with the category it was given.
C11_OverrideAlwaysWins ==
    /\ [][overridesFile' # overridesFile =>
            \E name \in OverrideNames, domain \in OverrideDomains,
               category \in OverrideCategories :
                /\ overrideKey(name, domain) \in DOMAIN overridesFile'.overrides
                /\ overridesFile'.overrides[overrideKey(name, domain)].category
                     = category]_vars
    /\ [](( /\ Answered
            /\ empty(answer.domain)
            /\ overrideKey(answer.name, <<>>) \in DOMAIN getOverrides(overridesFile))
          => answer.result = [category |-> NameOverride.category,
                              confidence |-> "override",
                              matched |-> NameOverride])

\* C11 witness: an override for a name answers the call although the corpus
\* holds an exact record of another category for that name.
C11_Witness ==
    /\ Answered /\ empty(answer.domain) /\ OverrideApplies /\ ExactApplies
    /\ answer.result.confidence = "override"
    /\ \E r \in Records :
          /\ ~r.isWildcard /\ strtolower(r.name) = AskedName
          /\ r.category # answer.result.category


\* C12: wildcardMatch(name, pattern) holds exactly when the whole lowercased
\* name matches the pattern with '*' for zero or more arbitrary characters and
\* '?' for exactly one arbitrary character.
C12_WildcardMatchIsGlob ==
    Answered =>
        \A r \in Records :
            r.isWildcard =>
                (wildcardMatch(answer.name, r.name)
                   <=> globMatch(AskedName, strtolower(r.name)))


\* the string ends with the given suffix
EndsWith(str, suffix) ==
    /\ Len(suffix) <= Len(str)
    /\ SubSeq(str, Len(str) - Len(suffix) + 1, Len(str)) = suffix

\* C13: domainMatches, case-insensitively: a record domain with a leading dot
\* matches exactly the supplied domains that end with it; a record domain
\* without one matches the supplied domain equal to it and those that end in
\* '.' followed by it, and no other.
C13_DomainContainment ==
    Answered =>
        \A r \in Records :
            r.domain # <<>> =>
                LET p == strtolower(r.domain)
                IN  domainMatches(answer.domain, r.domain)
                      <=> IF p[1] = "."
                          THEN EndsWith(AskedDomain, p)
                          ELSE AskedDomain = p \/ EndsWith(AskedDomain, <<".">> \o p)

\* C13 witness: a call with a subdomain on a corpus that has a record with the
\* leading-dot domain and one with the parent domain, both of which match.
C13_Witness ==
    /\ Answered
    /\ answer.domain = <<"s", ".", "e">>
    /\ \E r1, r2 \in Records :
          /\ r1.domain = <<".", "e">> /\ domainMatches(answer.domain, r1.domain)
          /\ r2.domain = <<"e">> /\ domainMatches(answer.domain, r2.domain)


\* the answer of the exact-name rule for a record
ExactAnswer(r) == [category |-> r.category, confidence |-> "exact", matched |-> r]

\* C14 as stated: for every record that is no wildcard and whose name no other
\* record of the corpus has, categorize(name) returns that record's category
\* with confidence 'exact' and that record.
C14_UniqueNameIsExact ==
    (Answered /\ answer.domain = <<>>) =>
        \A i \in 1..Len(database.cookies) :
            LET r == database.cookies[i]
            IN  ( /\ ~r.isWildcard
                  /\ r.name = answer.name
                  /\ \A j \in 1..Len(database.cookies) :
                        j # i => database.cookies[j].name # r.name )
                => answer.result = ExactAnswer(r)

\* C14, amended: for every record that is no wildcard and whose lowercased
\* name no other non-wildcard record has, categorize(name), in any letter
\* case, returns that record's category with confidence 'exact' and that
\* record, provided the override store has no entry for the name.
C14_UniqueLowercasedNameIsExact ==
    (Answered /\ answer.domain = <<>> /\ ~OverrideApplies) =>
        \A i \in 1..Len(database.cookies) :
            LET r == database.cookies[i]
            IN  ( /\ ~r.isWildcard
                  /\ strtolower(r.name) = AskedName
                  /\ \A j \in 1..Len(database.cookies) :
                        j # i => \/ database.cookies[j].isWildcard
                                 \/ strtolower(database.cookies[j].name) # AskedName )
                => answer.result = ExactAnswer(r)

\* C14 witness: a call in another letter case than the record's, on a corpus
\* that also holds a wildcard record accepting the name, answered 'exact'.
C14_Witness ==
    /\ Answered /\ answer.domain = <<>> /\ ~OverrideApplies
    /\ WildcardAccepted
    /\ \E r \in Records : ~r.isWildcard /\ r.name # answer.name
                            /\ answer.result = ExactAnswer(r)


\* this step belongs to a categorize call: it returns from one, or it is the
\* first half of the refresh that a categorize call runs
ClassifyStep ==
    \/ answer' # NoAnswer
    \/ (refresh'.stage = "written" /\ refresh'.query # NoAnswer)

\* two successive calls with the same arguments against the same cache file
\* and override store return the same
SameCallSameAnswer ==
    ( /\ answer # NoAnswer /\ answer' # NoAnswer
      /\ answer'.name = answer.name /\ answer'.domain = answer.domain
      /\ cacheFile' = cacheFile /\ overridesFile' = overridesFile )
    => answer'.result = answer.result

C16_UnavailableCorpusIsNone ==
    answer # NoAnswer =>
        /\ answer.result # Raised
        /\ database = Absent =>
              answer.result = [category |-> "uncategorized", confidence |-> "none",
                               matched |-> NoRecord]


\* the file holds a whole index: records together with the tables built from
\* exactly these records
Whole(file) ==
    /\ readable(file)
    /\ file.indexes = buildIndexes(file.cookies)

\* C17: updateDatabase is all-or-nothing. A refresh that throws, at whatever
\* step, leaves the cache file and the in-memory database as they were and
\* leaves no temporary file; the cache file only ever changes to a whole index,
\* in the step in which the refresh completes and the in-memory database
\* becomes that same index.
C17_RefreshAllOrNothing ==
    [][/\ refresh' = Failed => /\ cacheFile' = cacheFile
                               /\ database' = database
                               /\ tmpFile' = Absent
       /\ cacheFile' # cacheFile => /\ Whole(cacheFile')
                                    /\ database' = cacheFile'
                                    /\ refresh' = Idle
       /\ (database' # database /\ database' # Absent) =>
              /\ Whole(database')
              /\ database' = cacheFile']_vars

\* C17 witness: a refresh has thrown while an index was cached and loaded;
\* both are still there.
C17_Witness ==
    /\ refresh = Failed
    /\ readable(cacheFile) /\ Len(cacheFile.cookies) > 0
    /\ database = cacheFile
    /\ answer = NoAnswer


\* ------------------------------------------------------------------------
\* Properties of the gate, continued
\* ------------------------------------------------------------------------
\* C18: the inline content of an element is what its author wrote (here: the
\* ordinal of the authored script), in every form the gate gives it: neither
\* blocking nor activation alters it.
C18_ContentPreserved ==
    \A n \in 1..Len(dom) :
        (dom[n].blocked \/ dom[n].gen > 0) => dom[n].text = dom[n].root

\* C18 witness: a second authored script was blocked and then activated; its
\* executable clone is in the document, the placeholder is detached.
C18_Witness ==
    \E n, m \in 1..Len(dom) :
        /\ dom[n].root = 2 /\ dom[m].root = 2
        /\ dom[m].gen = 0 /\ BlockedNode(dom[m]) /\ ~dom[m].inDoc
        /\ dom[n].gen = 1 /\ ExecutableNode(dom[n])


\* this step is an init() that applies blocking: interceptScripts registers
\* its observer
BlockingStep == Len(queues') > Len(queues)

\* the authored element of node n is in the document in executable form
ActiveAfter(n) ==
    \E m \in 1..Len(dom') : dom'[m].root = dom[n].root /\ ExecutableNode(dom'[m])

\* C19: an element with a non-necessary marker whose category is consented
\* when the gate discovers it is Active at the end of that discovery: when the
\* observer hands it to handleScript, and when init() finds it in the page on
\* a visit that starts with a stored decision.
C19_ConsentedDiscoveryIsActive ==
    [][/\ ObserveStep =>
            \A n \in 1..Len(dom) :
                (Pending(queues, n) /\ dom[n].inDoc /\ Gated(dom[n].marker)
                   /\ Granted(consent, dom[n].marker))
                => ActiveAfter(n)
       /\ BlockingStep =>
            \A n \in 1..Len(dom) :
                (dom[n].inDoc /\ Gated(dom[n].marker)
                   /\ Granted(stored, dom[n].marker))
                => ActiveAfter(n)]_vars

\* the gate holds node n in its list of blocked scripts after the step
RegisteredAfter(n) ==
    \E i \in 1..Len(blockedScripts') : blockedScripts'[i].script = n

\* C20: every script that is in the document when init() applies blocking,
\* authored with type text/plain and a non-necessary marker whose category is
\* not consented, is a Blocked element registered in blockedScripts after it.
C20_AuthoredPlaceholderIsRegistered ==
    [][BlockingStep =>
          \A n \in 1..Len(dom) :
              (dom[n].inDoc /\ dom[n].otype = TextPlain /\ dom[n].gen = 0
                 /\ Gated(dom[n].marker)
                 /\ ~Granted(stored, dom[n].marker)
                 /\ ~Granted(consent', dom[n].marker))
              => (BlockedNode(dom'[n]) /\ RegisteredAfter(n))]_vars

\* ------------------------------------------------------------------------
\* The override store
\* ------------------------------------------------------------------------
\* the overrides a reader finds in the store; none in an unreadable store
StoredOverrides ==
    IF overridesFile \in {Absent, Corrupt} THEN [k \in {} |-> NoRecord]
    ELSE overridesFile.overrides

\* the key of an override: the lowercased name, followed by '@' and the
\* lowercased domain when a domain is given
KeyOf(name, domain) ==
    [i \in 1..Len(name) |-> LowerChar(name[i])]
      \o (IF domain = <<>> THEN <<>>
          ELSE <<"@">> \o [i \in 1..Len(domain) |-> LowerChar(domain[i])])

\* C21: addOverride is idempotent per key (the lowercased name, plus '@' and
\* the lowercased domain when a domain is given): after the call the store
\* holds under that key one entry with the category and the reason of this
\* call, whether or not the key was held before, and the entry under every
\* other key is unchanged.
C21_AddOverrideReplacesPerKey ==
    [][overridesFile' # overridesFile =>
          \E name \in OverrideNames, domain \in OverrideDomains,
             category \in OverrideCategories :
              LET key == KeyOf(name, domain)
                  old == StoredOverrides
                  new == overridesFile'.overrides
              IN  /\ DOMAIN new = DOMAIN old \cup {key}
                  /\ new[key].name = name
                  /\ new[key].domain = domain
                  /\ new[key].category = category
                  /\ new[key].reason = OverrideReason(category)
                  /\ \A k \in DOMAIN old \ {key} : new[k] = old[k]]_vars

\* C21 witness: the second addOverride call was for the key of the first one,
\* and the store holds that key alone, with the entry of the second call.
C21_Witness ==
    /\ overridesFile \notin {Absent, Corrupt}
    /\ overridesFile.lastModified = 2
    /\ Cardinality(DOMAIN overridesFile.overrides) = 1
    /\ \A k \in DOMAIN overridesFile.overrides :
          overridesFile.overrides[k].timestamp = 2

\* the store holds no override a reader can find
EmptyStore == [overrides |-> [k \in {} |-> NoRecord], lastModified |-> 0]

\* C22: when the override store is absent or corrupt, categorize does not
\* fail: the set of overrides is taken as empty and the call answers what
\* automatic matching gives over the corpus.
C22_UnreadableStoreIsEmpty ==
    (Answered /\ overridesFile \in {Absent, Corrupt})
    => /\ answer.result.confidence # "override"
       /\ answer.result.confidence = FirstRule(WildcardAccepted)
       /\ answer.result = categorize(database, EmptyStore, answer.name, answer.domain)

\* C22 witness: with a corrupt override store a call is answered by an
\* exact-name record of the corpus.
C22_Witness ==
    /\ Answered /\ overridesFile = Corrupt
    /\ answer.result.confidence = "exact"
    /\ answer.result.matched \in Records

\* ------------------------------------------------------------------------
\* The consent receipt
\* ------------------------------------------------------------------------
\* this step is the arrival of the answer to a receipt request
ReceiptStep == ~SetStep /\ receipt = "pending" /\ receipt' \in ReceiptOutcomes

\* C23: a receipt that cannot be sent or stored neither blocks nor undoes the
\* application of consent: the set() that sends it assigns the decision,
\* persists it, runs the gate pass and emits the notification whether or not
\* the receipt can be sent, and the later failure of the request changes
\* neither the decision, nor the stored item, nor any script.
C23_ReceiptFailureChangesNothing ==
    [][/\ SetStep =>
            /\ consent' = [state |-> asked']
            /\ storageOk => stored' = consent'
            /\ receipt' \in {"pending", "failed"}
            /\ Len(trace') >= 5
            /\ trace'[3] = "log" /\ trace'[4] = "apply" /\ trace'[5] = "notify"
       /\ ReceiptStep =>
            /\ consent' = consent
            /\ stored' = stored
            /\ dom' = dom
            /\ blockedScripts' = blockedScripts
            /\ queues' = queues]_vars

\* C23 witness: the receipt of a decision failed after the call that sent it
\* had persisted the decision and activated a blocked element.
C23_Witness ==
    /\ receipt = "failed"
    /\ storageOk
    /\ consent # NoConsent /\ stored = consent
    /\ \E n \in 1..Len(dom) : dom[n].gen = 1 /\ ExecutableNode(dom[n])

\* ------------------------------------------------------------------------
\* FileStorage under concurrent requests
\* ------------------------------------------------------------------------
\* the bytes are a whole JSON document of the override store
WholeStore(bytes) ==
    /\ bytes \notin {Absent, Corrupt, NoAnswer}
    /\ DOMAIN bytes = {"overrides", "lastModified"}

\* process p is inside FileStorage::write
Writing(p) == fs.pc[p] \in {"read", "open", "written"}

\* this step ends a write of process p with an exception
WriteFails(p) == Writing(p) /\ fs'.pc[p] = "idle" /\ fs'.result[p] = Raised

\* C24: under every interleaving of FileStorage::write with reads of the same
\* file, a reader finds the whole previous content or the whole new content,
\* never an empty or partial file: the file changes only by the rename that
\* puts the writer's whole data in its place, and a write that fails leaves
\* the file with the content it had.
C24_AtomicVisibility ==
    /\ [](fs.store = Absent \/ WholeStore(fs.store))
    /\ [](fs.seen \in {NoAnswer, Absent} \/ WholeStore(fs.seen))
    /\ [][/\ fs'.store # fs.store =>
               \E p \in Procs : fs.pc[p] = "written" /\ fs'.store = fs.local[p]
          /\ \A p \in Procs : WriteFails(p) => fs'.store = fs.store]_vars

\* C24 witness: a reader has read the whole previous content while the
\* temporary file of a writer already holds the new content.
C24_Witness ==
    /\ WholeStore(fs.seen) /\ fs.seen = fs.store
    /\ \E p \in Procs :
          /\ fs.pc[p] = "written"
          /\ WholeStore(fs.tmp[p])
          /\ fs.tmp[p] # fs.store

\* C25: file locking prevents lost updates between writers: of two requests
\* that update the same JSON file by read-modify-write, at most one is between
\* its read and its write at a time, and once both addOverride calls have
\* returned the file holds the keys of both.
C25_NoLostUpdate ==
    /\ \A p, q \in Procs : (Writing(p) /\ Writing(q)) => p = q
    /\ (\A p \in Procs : fs.pc[p] = "idle")
       => \A p \in Procs, key \in {overrideKey(name, <<>>) : name \in OverrideNames} :
             fs.result[p] = Returned(TRUE, key)
             => (WholeStore(fs.store) /\ key \in DOMAIN fs.store.overrides)

\* an entry of the log is whole: its two buffers are adjacent, in order, and
\* of one process
WholeLog(log) ==
    \A i \in 1..Len(log) :
        /\ log[i].part = 1 =>
              \/ i < Len(log) /\ log[i + 1] = [log[i] EXCEPT !.part = 2]
              \/ i = Len(log) /\ fs.pc[log[i].by] = "half"
        /\ log[i].part = 2 => (i > 1 /\ log[i - 1] = [log[i] EXCEPT !.part = 1])

\* this step ends a log() call of process p that returns r
LogReturns(p, r) ==
    fs.pc[p] \in {"appendOpen", "locked", "half"} /\ fs'.pc[p] = "idle"
      /\ fs'.result[p] = Returned(r, <<>>)

\* C26: the consent log is append-only: no step changes or removes what the
\* log holds, a log() call that returns true has added its entry, whole, at
\* the end, a call that returns false has added nothing, and the entries of
\* concurrent calls never interleave within a line.
C26_AppendOnly ==
    /\ [](fs # FsIdle => WholeLog(fs.log))
    /\ [][/\ Len(fs'.log) >= Len(fs.log)
          /\ SubSeq(fs'.log, 1, Len(fs.log)) = fs.log
          /\ \A p \in Procs :
                /\ LogReturns(p, TRUE) =>
                      /\ Len(fs'.log) = Len(fs.log) + 1
                      /\ Len(fs'.log) >= 2
                      /\ \A part \in Parts :
                            fs'.log[Len(fs'.log) - 2 + part]
                              = [by |-> p, part |-> part, entry |-> fs.local[p]]
                /\ LogReturns(p, FALSE) => fs'.log = fs.log]_vars

\* C26 witness: a process is in the middle of its line while the other, whose
\* earlier entry the log holds whole, waits for the lock with its next entry.
C26_Witness ==
    \E p, q \in Procs :
        /\ p # q
        /\ fs.pc[p] = "half" /\ fs.pc[q] = "appendOpen"
        /\ Len(fs.log) = 3
        /\ fs.log[1].by = q /\ fs.log[2].by = q /\ fs.log[3].by = p

\* this step is the fwrite of process p's entry
WritesEntry(p) == fs.pc[p] = "locked" /\ fs'.pc[p] = "half"

\* the identifier in the entry this step adds to the log
WrittenSessionId == fs'.log[Len(fs'.log)].entry.sessionId

\* C27 as stated: the entry carries the session identifier exactly as the
\* caller supplied it, whatever its length.
C27_SessionIdAsSupplied ==
    [][\A p \in Procs : WritesEntry(p) => WrittenSessionId = fs.arg[p]]_vars

\* C27, amended: the entry carries the identifier as supplied when it is at
\* least 32 characters long; a shorter one is replaced by the 64-character
\* hexadecimal SHA-256 digest of the identifier joined with the remote address.
C27_ShortSessionIdIsHashed ==
    [][\A p \in Procs :
          WritesEntry(p) =>
             /\ fs.arg[p].length >= 32 => WrittenSessionId = fs.arg[p]
             /\ fs.arg[p].length < 32 =>
                   /\ WrittenSessionId = [sha256 |-> fs.arg[p].text, length |-> 64]
                   /\ WrittenSessionId # fs.arg[p]]_vars

\* C27 witness: the log holds an entry whose identifier is a digest and an
\* entry whose identifier is the one the caller supplied.
C27_Witness ==
    /\ fs # FsIdle
    /\ \E i, j \in 1..Len(fs.log) :
          /\ fs.log[i].entry.sessionId \in SessionIds
          /\ fs.log[j].entry.sessionId \notin SessionIds
          /\ fs.log[j].entry.sessionId.length = 64

\* ------------------------------------------------------------------------
\* The corpus refresh: records, indexes, categories
\* ------------------------------------------------------------------------
\* the index documents of the state: the cache file, the temporary file of a
\* refresh, the database in memory
IndexDocuments == {f \in {cacheFile, tmpFile, database} : f \notin {Absent, Corrupt}}

\* the lines of the download that have a name
KeptRows(rows) == SelectSeq(rows, LAMBDA r : r.name # <<>> /\ r.name # <<"0">>)

Lowered(str) == [i \in 1..Len(str) |-> LowerChar(str[i])]

\* the positions a list of an index refers to, in the order of the list
Strictly(list) == \A j, k \in 1..Len(list) : j < k => list[j] < list[k]

WellIndexed(f) ==
    LET cookies == f.cookies
        ix == f.indexes
        N == Len(cookies)
        wild == {i \in 1..N : cookies[i].isWildcard}
    IN  /\ Len(ix.wildcards) = Cardinality(wild)
        /\ \A j \in 1..Len(ix.wildcards) :
              /\ ix.wildcards[j].index \in wild
              /\ ix.wildcards[j].pattern = Lowered(cookies[ix.wildcards[j].index].name)
        /\ Strictly([j \in 1..Len(ix.wildcards) |-> ix.wildcards[j].index])
        /\ \A key \in DOMAIN ix.byName :
              /\ Strictly(ix.byName[key])
              /\ \A m \in 1..Len(ix.byName[key]) :
                    /\ ix.byName[key][m] \in (1..N) \ wild
                    /\ Lowered(cookies[ix.byName[key][m]].name) = key
        /\ \A i \in (1..N) \ wild :
              /\ Lowered(cookies[i].name) \in DOMAIN ix.byName
              /\ \E m \in 1..Len(ix.byName[Lowered(cookies[i].name)]) :
                    ix.byName[Lowered(cookies[i].name)][m] = i
        /\ \A key \in DOMAIN ix.byDomain :
              \A m \in 1..Len(ix.byDomain[key]) :
                  /\ ix.byDomain[key][m] \in 1..N
                  /\ Lowered(cookies[ix.byDomain[key][m]].domain) = key
        /\ \A i \in 1..N : cookies[i].name # <<>>

\* a refresh has written its temporary file
Refreshing == refresh \notin {Idle, Failed}

CanonicalCategories ==
    {"necessary", "preferences", "analytics", "marketing", "uncategorized"}

\* the keys of the category map that the source string contains, letter case
\* apart
LabelsIn(raw) ==
    {i \in 1..Len(categoryMap) : Contains(Lowered(raw), Lowered(categoryMap[i].label))}

\* every record of every index document has a canonical category
CategoriesCanonical ==
    \A f \in IndexDocuments :
        \A i \in 1..Len(f.cookies) : f.cookies[i].category \in CanonicalCategories

\* C29 as stated: a source string that contains a known label gets that
\* label's category, every other string 'uncategorized', and every record's
\* category is canonical.
C29_ContainedLabelDecides ==
    /\ CategoriesCanonical
    /\ Refreshing =>
          LET kept == KeptRows(refresh.rows)
          IN  \A i \in 1..Len(kept) :
                  /\ \A l \in LabelsIn(kept[i].category) :
                        tmpFile.cookies[i].category = categoryMap[l].category
                  /\ LabelsIn(kept[i].category) = {} =>
                        tmpFile.cookies[i].category = "uncategorized"

\* C29, amended: a source string that contains known labels gets the category
\* of the first of them in the order of the category map, every other string
\* 'uncategorized', and every record's category is canonical.
C29_FirstContainedLabelDecides ==
    /\ CategoriesCanonical
    /\ Refreshing =>
          LET kept == KeptRows(refresh.rows)
          IN  \A i \in 1..Len(kept) :
                  LET labels == LabelsIn(kept[i].category)
                  IN  /\ labels # {} =>
                            \E l \in labels :
                                /\ \A other \in labels : l <= other
                                /\ tmpFile.cookies[i].category = categoryMap[l].category
                      /\ labels = {} => tmpFile.cookies[i].category = "uncategorized"

\* C29 witness: a refresh has normalized a string that holds two labels of
\* different categories and a string that holds none.
C29_Witness ==
    /\ Refreshing
    /\ Len(tmpFile.cookies) = 2
    /\ LabelsIn(KeptRows(refresh.rows)[1].category) = {}
    /\ tmpFile.cookies[1].category = "uncategorized"
    /\ Cardinality(LabelsIn(KeptRows(refresh.rows)[2].category)) = 2
    /\ tmpFile.cookies[2].category = "analytics"

\* ------------------------------------------------------------------------
\* Failing closed
\* ------------------------------------------------------------------------
\* no gating decision can be made for the marker under the consent record
Undecidable(c, m) ==
    \/ c = NoConsent
    \/ ~HasState(c)
    \/ m \notin Categories

\* C30: the gate fails closed: an element with a non-necessary marker that
\* the observer hands to handleScript while no gating decision can be made for
\* it (no decision exists, the consent record loaded from storage lacks its
\* state map, or the marker value is unknown or 'uncategorized') is not left
\* executable.
C30_GateFailsClosed ==
    [][ObserveStep =>
          \A n \in 1..Len(dom) :
              (Pending(queues, n) /\ dom[n].inDoc /\ Gated(dom[n].marker)
                 /\ Undecidable(consent, dom[n].marker))
              => ~ExecutableNode(dom'[n])]_vars

\* ------------------------------------------------------------------------
\* The steps of classify, one by one
\* ------------------------------------------------------------------------
\* the positions of the corpus, and the least of a set of them
Positions == 1..Len(database.cookies)
First(set) == CHOOSE i \in set : \A j \in set : i <= j

\* the record's domain equals the supplied domain or contains it: it has a
\* leading dot and the supplied domain ends with it, or the supplied domain
\* ends with '.' and the record's domain
Fits(r) ==
    LET p == strtolower(r.domain)
    IN  /\ p # <<>>
        /\ \/ AskedDomain = p
           \/ (p[1] = "." /\ EndsWith(AskedDomain, p))
           \/ (p[1] # "." /\ EndsWith(AskedDomain, <<".">> \o p))

\* the records of the exact-name step: no wildcard, the name of the call
Candidates ==
    {i \in Positions : /\ ~database.cookies[i].isWildcard
                       /\ strtolower(database.cookies[i].name) = AskedName}

FittingCandidates ==
    {i \in Candidates : AskedDomain # <<>> /\ Fits(database.cookies[i])}

C31_NoneFits ==
    /\ Answered /\ ~OverrideApplies
    /\ Cardinality(Candidates) = 2
    /\ AskedDomain # <<>> /\ FittingCandidates = {}
    /\ answer.result = ExactAnswer(database.cookies[First(Candidates)])


\* the wildcard records that match the name of the call, '*' standing for any
\* characters and '?' for one, and pass the domain filter
WildcardWinners ==
    {i \in Positions :
        LET r == database.cookies[i]
        IN  /\ r.isWildcard
            /\ globMatch(AskedName, strtolower(r.name))
            /\ (AskedDomain # <<>> /\ r.domain # <<>>) => Fits(r)}

\* the same with the pattern test the code performs
WildcardsAccepted ==
    {i \in Positions :
        LET r == database.cookies[i]
        IN  /\ r.isWildcard
            /\ wildcardMatch(AskedName, r.name)
            /\ (AskedDomain # <<>> /\ r.domain # <<>>) => Fits(r)}

WildcardAnswer(r) ==
    [category |-> r.category, confidence |-> "wildcard", matched |-> r]

\* C32: when the wildcard step is reached (no override, no exact name), the
\* first wildcard record in corpus order whose pattern matches the name and
\* that passes the domain filter answers the call with confidence
\* 'wildcard': a matching record with a domain is passed over when the
\* supplied domain neither equals nor is contained in it, a record without a
\* domain and a call without a domain pass unchecked.
C32_FirstPassingWildcardWins ==
    (Answered /\ ~OverrideApplies /\ Candidates = {} /\ WildcardWinners # {}) =>
        answer.result = WildcardAnswer(database.cookies[First(WildcardWinners)])

\* The order and the domain filter of the wildcard step, relative to the
\* names that wildcardMatch accepts.
WildcardStepOrder ==
    (Answered /\ ~OverrideApplies /\ Candidates = {}) =>
        IF WildcardsAccepted # {}
        THEN answer.result
               = WildcardAnswer(database.cookies[First(WildcardsAccepted)])
        ELSE answer.result.confidence \in {"domain", "none"}

\* a wildcard record with a domain was passed over for the one after it
WildcardSkipped ==
    /\ Answered /\ ~OverrideApplies /\ Candidates = {}
    /\ answer.result.confidence = "wildcard"
    /\ \E i \in Positions :
          /\ database.cookies[i].isWildcard
          /\ wildcardMatch(AskedName, database.cookies[i].name)
          /\ i \notin WildcardsAccepted
          /\ i < First(WildcardsAccepted)


\* the records whose domain is the supplied one
DomainRecords ==
    {i \in Positions :
        /\ AskedDomain # <<>>
        /\ strtolower(database.cookies[i].domain) = AskedDomain}

NoneAnswer ==
    [category |-> "uncategorized", confidence |-> "none", matched |-> NoRecord]

\* C33: when no override, no exact name and no wildcard applies, the call is
\* answered with confidence 'domain' by the first record in corpus order
\* whose domain is the supplied lowercased domain; without such a record, or
\* without a domain, by 'uncategorized', confidence 'none', no record.
C33_DomainOnlyThenNone ==
    (Answered /\ ~OverrideApplies /\ Candidates = {} /\ WildcardWinners = {}) =>
        answer.result =
            IF DomainRecords # {}
            THEN [category |-> database.cookies[First(DomainRecords)].category,
                  confidence |-> "domain",
                  matched |-> database.cookies[First(DomainRecords)]]
            ELSE NoneAnswer

\* C33 witness: a call for a name no record has, with a domain written in
\* lower case that a record carries in another letter case, answered by that
\* record.
C33_Witness ==
    /\ Answered /\ ~OverrideApplies /\ Candidates = {} /\ WildcardWinners = {}
    /\ DomainRecords # {}
    /\ answer.result.confidence = "domain"
    /\ answer.result.matched.domain # AskedDomain

\* C33 witness for the other branch: a domain no record has.
C33_NoMatch ==
    /\ Answered /\ ~OverrideApplies /\ Candidates = {} /\ WildcardWinners = {}
    /\ AskedDomain # <<>> /\ DomainRecords = {}
    /\ database.cookies # <<>>
    /\ answer.result = NoneAnswer

\* ------------------------------------------------------------------------
\* The registry of Blocked elements across gate passes
\* ------------------------------------------------------------------------
\* C34: a gate pass removes from the registry of Blocked elements only the
\* elements it activated: an entry whose element is still a placeholder in
\* the document and whose category the new decision does not grant is still
\* registered when the set() returns (so that a later set() granting its
\* category can activate it).
C34_PassKeepsUngranted ==
    [][(SetStep /\ InSeq("apply", trace')) =>
          \A i \in 1..Len(blockedScripts) :
              LET e == blockedScripts[i]
              IN  ( /\ dom[e.script].inDoc
                    /\ BlockedNode(dom[e.script])
                    /\ ~Lookup(consent'.state, e.category) )
                  => \E j \in 1..Len(blockedScripts') : blockedScripts'[j] = e]_vars

\* ------------------------------------------------------------------------
\* The attributes of an activated element
\* ------------------------------------------------------------------------
\* the element is the executable form the gate made of the placeholder of a
\* discovered element: the clone of applyConsent, or the element handleScript
\* unblocked in place
Activated(node) == node.gen > 0 /\ node.type # TextPlain

\* C35: the element produced by activation carries every attribute the
\* element had at discovery, with the same values and in the same order, its
\* type attribute included; of the attributes the gate added only the
\* blocking marker is gone.
C35_ActivationKeepsAttributes ==
    \A n \in 1..Len(dom) :
        Activated(dom[n]) =>
            dom[n].attrs = authoredAttributes(dom[n].marker, dom[n].otype)

\* The attributes other than type are carried over in their order.
ActivationKeepsOtherAttributes ==
    \A n \in 1..Len(dom) :
        Activated(dom[n]) =>
            removeAttribute(dom[n].attrs, "type")
              = removeAttribute(authoredAttributes(dom[n].marker, dom[n].otype),
                                "type")

\* ------------------------------------------------------------------------
\* Delivery of insertions to the gate
\* ------------------------------------------------------------------------
\* the script nodes this step has put in the document
Inserted == (Len(dom) + 1)..Len(dom')

\* the elements the observer callbacks of this step have seen for the first
\* time, in the order handleScript saw them
NewlySeen == SubSeq(discovered', Len(discovered) + 1, Len(discovered'))

\* the place in the first observer's queue of the first record of an element
QueuePos(root) ==
    CHOOSE i \in 1..Len(queues[1]) :
        /\ dom[queues[1][i]].root = root
        /\ \A j \in 1..(i - 1) : dom[queues[1][j]].root # root

\* C36: once init() has been called, every script element put in the
\* document, also while init() awaits the configuration, is recorded for the
\* gate, and the observer callback hands the recorded elements to
\* handleScript one by one in the order of their insertion.
C36_InsertionsReachGate ==
    /\ [][inits > 0 => \A n \in Inserted : Pending(queues', n)]_vars
    /\ [][ObserveStep =>
            \A i, j \in 1..Len(NewlySeen) :
                i < j => QueuePos(NewlySeen[i]) < QueuePos(NewlySeen[j])]_vars

\* Once interceptScripts has installed the observer, every insertion is
\* recorded for the gate.
ObservedInsertionsReachGate ==
    [][Len(queues) > 0 => \A n \in Inserted : Pending(queues', n)]_vars

\* ------------------------------------------------------------------------
\* A registered element that has left the document
\* ------------------------------------------------------------------------
\* the registry holds an element that is no longer in the document and whose
\* category the decision grants
GrantsRemoved(state) ==
    \E i \in 1..Len(blockedScripts) :
        /\ ~dom[blockedScripts[i].script].inDoc
        /\ Lookup(state, blockedScripts[i].category)

\* C37: a set() that grants the category of a Blocked element which has been
\* removed from the document still completes: the other Blocked elements it
\* grants are activated, no granted entry is left in the blocked list, and
\* the change notification is emitted.
C37_RemovedElementDoesNotStopSet ==
    [][(SetStep /\ GrantsRemoved(consent'.state)) =>
          /\ InSeq("notify", trace')
          /\ \A i \in 1..Len(blockedScripts) :
                LET e == blockedScripts[i]
                IN  ( /\ dom[e.script].inDoc
                      /\ BlockedNode(dom[e.script])
                      /\ Lookup(consent'.state, e.category) )
                    => \E m \in 1..Len(dom') :
                          /\ dom'[m].root = dom[e.script].root
                          /\ ExecutableNode(dom'[m])
          /\ \A j \in 1..Len(blockedScripts') :
                ~Lookup(consent'.state, blockedScripts'[j].category)]_vars

\* ------------------------------------------------------------------------
\* The dashboard's view of the consent log
\* ------------------------------------------------------------------------
\* the last k entries of the log, the latest first
MostRecent(k) ==
    [i \in 1..k |-> fs.log[Len(fs.log) + 1 - i]]

\* C38: getLogs(limit) with the default offset returns the most recent
\* entries, most recent first: when the log holds more than limit entries,
\* the limit entries appended last.
C38_GetLogsReturnsMostRecent ==
    ( /\ fs.reply.call = "getLogs"
      /\ fs.reply.offset = 0
      /\ fs.reply.limit > 0
      /\ Len(fs.log) > fs.reply.limit )
    => fs.reply.logs = MostRecent(fs.reply.limit)

\* What getLogs returns: the entries are in reverse order of appending, and
\* a log of at most limit entries is returned whole.
GetLogsReversesWhatItRead ==
    ( /\ fs.reply.call = "getLogs"
      /\ fs.reply.offset = 0
      /\ (fs.reply.limit = 0 \/ Len(fs.log) <= fs.reply.limit) )
    => fs.reply.logs = MostRecent(Len(fs.log))


\* the consent types as stated: rejected when only 'necessary' is on,
\* accepted when every other category is on, customized otherwise
StatedType(consentState) ==
    IF \A c \in DOMAIN consentState : c # "necessary" => consentState[c]
    THEN "acceptedAll"
    ELSE IF /\ "necessary" \in DOMAIN consentState /\ consentState["necessary"]
            /\ \A c \in DOMAIN consentState : c # "necessary" => ~consentState[c]
    THEN "rejectedAll"
    ELSE "customized"

\* the receipts a getStats call with this cutoff counts
CountedReceipts ==
    {i \in 1..Len(fs.log) :
        fs.reply.cutoff = 0 \/ fs.log[i].timestamp >= fs.reply.cutoff}

StatedCount(type) ==
    Cardinality({i \in CountedReceipts : StatedType(fs.log[i].consentState) = type})

\* C39: getStats counts a receipt as rejectedAll when necessary is true and
\* every other category false, as acceptedAll when every non-necessary
\* category is true, as customized otherwise; every counted receipt is in
\* exactly one of the three counters.
C39_StatsClassifyReceipts ==
    fs.reply.call = "getStats" =>
        /\ fs.reply.stats.rejectedAll = StatedCount("rejectedAll")
        /\ fs.reply.stats.acceptedAll = StatedCount("acceptedAll")
        /\ fs.reply.stats.customized = StatedCount("customized")
        /\ fs.reply.stats.total
             = fs.reply.stats.acceptedAll + fs.reply.stats.rejectedAll
                 + fs.reply.stats.customized

\* Every counted receipt is in exactly one counter, and acceptedAll is as
\* stated.
StatsPartitionReceipts ==
    fs.reply.call = "getStats" =>
        /\ fs.reply.stats.total = Cardinality(CountedReceipts)
        /\ fs.reply.stats.acceptedAll = StatedCount("acceptedAll")
        /\ fs.reply.stats.total
             = fs.reply.stats.acceptedAll + fs.reply.stats.rejectedAll
                 + fs.reply.stats.customized

\* ------------------------------------------------------------------------
\* Initialization
\* ------------------------------------------------------------------------
\* C40: initialization takes effect at most once per page, however the
\* init() calls interleave: at most one mutation observer is installed, at
\* most one banner is in the page, and 'cmp:initialized' is dispatched only
\* by an init() that found the SDK not yet initialized.
C40_InitTakesEffectOnce ==
    /\ [](Len(queues) <= 1 /\ banner <= 1)
    /\ [][InSeq("initialized", trace') => ~initialized]_vars

\* An init() call made after an earlier one has completed returns at once.
InitAfterCompletionIsIgnored ==
    [][initialized => /\ inits' = inits
                      /\ (pendingInits' = pendingInits \/ pendingInits > 0)]_vars

====
